---- MODULE Spec2Model ----
(***************************************************************************)
(* Transcript-correction engine of AutoVerse: the SegmentManager           *)
(* (core/correction_window_logic.py), the snapshot commands and the        *)
(* UndoManager (core/undo_redo.py) and the handlers of CorrectionViewLogic *)
(* (ui/correction_view_logic.py) that drive them.                          *)
(*                                                                         *)
(* Python objects are modelled with their identity: the segment dicts, the *)
(* segment lists and the speaker-map dicts live in three heaps and are     *)
(* referred to by address, so that "a = b" (aliasing) and "a = deepcopy(b)"*)
(* are different things, as they are in the program.                       *)
(*                                                                         *)
(* Strings are sequences of one-character strings.  A time is a number of  *)
(* milliseconds that stands for a double (see "Binary floating point").    *)
(* None is the empty tuple where a value is optional (an optional time is  *)
(* <<>> or <<ms>>), and 0 where a segment id or an address is optional.    *)
(***************************************************************************)
EXTENDS Integers, Sequences, FiniteSets, TLC

(***************************************************************************)
(* Bounds of the model.                                                    *)
(***************************************************************************)
\* commands recorded between two history clears
MaxCmds == 2
\* segments the store may hold
MaxSegs == 3
\* transcripts loaded
MaxLoads == 1

\* characters in the text of a segment
MaxText == 28

(***************************************************************************)
(* utils/constants.py                                                      *)
(***************************************************************************)
NO_SPEAKER_LABEL ==
  <<"S","P","E","A","K","E","R","_","N","O","N","E","_",
    "I","N","T","E","R","N","A","L">>

EMPTY_SEGMENT_PLACEHOLDER ==
  <<"[","D","o","u","b","l","e","-","c","l","i","c","k"," ",
    "t","o"," ","e","d","i","t"," ","t","e","x","t","]">>

(***************************************************************************)
(* Python built-ins used by the code.                                      *)
(***************************************************************************)
None == <<>>

Some(x) == <<x>>

IsSpace(c) == c = " "

\* "y = e" followed by an expression F(y) in which y occurs: the value of F at e
Let(e, F(_)) == CHOOSE r \in {F(y) : y \in {e}} : TRUE

\* "y1, y2 = e1, e2" followed by F(y1, y2)
Let2(e1, e2, F(_, _)) == CHOOSE r \in {F(y1, y2) : y1 \in {e1}, y2 \in {e2}} : TRUE

RECURSIVE LStrip(_)
\* str.lstrip()
LStrip(s) == IF s # <<>> /\ IsSpace(Head(s)) THEN LStrip(Tail(s)) ELSE s

RECURSIVE RStrip(_)
\* str.rstrip()
RStrip(s) ==
  IF s # <<>> /\ IsSpace(s[Len(s)]) THEN RStrip(SubSeq(s, 1, Len(s) - 1)) ELSE s

\* str.strip()
Strip(s) == RStrip(LStrip(s))

\* s[:n] for n >= 0
Take(s, n) == SubSeq(s, 1, IF n > Len(s) THEN Len(s) ELSE n)

\* s[n:] for n >= 0
Drop(s, n) == SubSeq(s, (IF n > Len(s) THEN Len(s) ELSE n) + 1, Len(s))

\* str.startswith(p)
StartsWith(s, p) == Len(p) <= Len(s) /\ SubSeq(s, 1, Len(p)) = p

\* list.insert(i, x), i counted from 0 as in Python (negative i counts from the end)
ListInsert(s, i, x) ==
  Let(IF i < 0 THEN (IF i + Len(s) < 0 THEN 0 ELSE i + Len(s))
      ELSE (IF i > Len(s) THEN Len(s) ELSE i),
      LAMBDA j : SubSeq(s, 1, j) \o <<x>> \o SubSeq(s, j + 1, Len(s)))

\* " ".join(filter(None, parts))
RECURSIVE JoinNonEmpty(_)
JoinNonEmpty(parts) ==
  IF parts = <<>> THEN <<>>
  ELSE Let(JoinNonEmpty(Tail(parts)), LAMBDA rest :
         IF Head(parts) = <<>> THEN rest
         ELSE IF rest = <<>> THEN Head(parts)
         ELSE Head(parts) \o <<" ">> \o rest)

Range(s) == {s[i] : i \in 1..Len(s)}

(***************************************************************************)
(* TimeCodec: SegmentManager.time_str_to_seconds / seconds_to_time_str     *)
(***************************************************************************)
Digits == <<"0","1","2","3","4","5","6","7","8","9">>

IsDigit(c) == c \in Range(Digits)

DigitVal(c) == (CHOOSE d \in 1..10 : Digits[d] = c) - 1

RECURSIVE DigitsVal(_)
DigitsVal(s) ==
  IF s = <<>> THEN 0 ELSE 10 * DigitsVal(SubSeq(s, 1, Len(s) - 1)) + DigitVal(s[Len(s)])

\* s without the sign int() accepts in front of the digits
Unsigned(t) == IF t # <<>> /\ Head(t) \in {"-", "+"} THEN Tail(t) ELSE t

\* int(s) succeeds: optional blanks around an optionally signed run of digits
IntOk(s) ==
  Let(Strip(s), LAMBDA t :
    Let(Unsigned(t), LAMBDA u : u # <<>> /\ \A i \in 1..Len(u) : IsDigit(u[i])))

\* int(s), where IntOk(s)
IntOf(s) ==
  Let(Strip(s), LAMBDA t :
    IF t # <<>> /\ Head(t) = "-" THEN 0 - DigitsVal(Tail(t)) ELSE DigitsVal(Unsigned(t)))

RECURSIVE Split(_, _)
\* str.split(sep) for a one-character separator
Split(s, sep) ==
  IF \A i \in 1..Len(s) : s[i] # sep THEN <<s>>
  ELSE Let(CHOOSE i \in 1..Len(s) : s[i] = sep /\ \A j \in 1..(i - 1) : s[j] # sep,
           LAMBDA k : <<SubSeq(s, 1, k - 1)>> \o Split(SubSeq(s, k + 1, Len(s)), sep))

\* int(h) * 3600 + int(m) * 60 + int(s) + int(ms) / 1000.0 in milliseconds, where
\* s, ms = s_ms.split('.'); None for the ValueError of an unpacking or of an int()
TimeOfFields(h, m, s_ms) ==
  IF Len(s_ms) # 2 THEN None
  ELSE IF IntOk(h) /\ IntOk(m) /\ IntOk(s_ms[1]) /\ IntOk(s_ms[2])
    THEN Some(IntOf(h) * 3600000 + IntOf(m) * 60000 + IntOf(s_ms[1]) * 1000 + IntOf(s_ms[2]))
  ELSE None

\* time_str_to_seconds: None, or the time in milliseconds
time_str_to_seconds(time_str) ==
  IF time_str = None THEN None
  ELSE Let(Split(time_str, ":"), LAMBDA parts :
         IF Len(parts) = 3
           THEN Let(Split(parts[3], "."), LAMBDA s_ms : TimeOfFields(parts[1], parts[2], s_ms))
         ELSE IF Len(parts) = 2
           THEN Let(Split(parts[2], "."), LAMBDA s_ms : TimeOfFields(<<"0">>, parts[1], s_ms))
         ELSE None)

RECURSIVE NatStr(_)
NatStr(n) == IF n < 10 THEN <<Digits[n + 1]>> ELSE NatStr(n \div 10) \o <<Digits[(n % 10) + 1]>>

RECURSIVE PadZero(_, _)
\* f"{n:0{w}d}" for n >= 0
PadZero(s, w) == IF Len(s) >= w THEN s ELSE PadZero(<<"0">> \o s, w)

(***************************************************************************)
(* Binary floating point.  A time t of this model, in milliseconds, stands *)
(* for the double time_str_to_seconds computes from its decimal fields,    *)
(*     v = S + ms / 1000.0      with S = t \div 1000, ms = t % 1000,       *)
(* that is RN(S + RN(ms / 1000)), RN rounding to the nearest double, ties  *)
(* to even.  Two times are equal exactly if their doubles are.             *)
(* seconds_to_time_str takes the fraction f = v - S, which is exact, and   *)
(* truncates RN(f * 1000).  The operators below compute that integer with  *)
(* small numbers: in units of the spacing 2^(e-52) of the doubles around v *)
(* (e = floor(log2 S)), ms / 1000 is q + r / 1000 with                     *)
(* r = ms * 2^(52-e) mod 1000, v is q or q + 1, and f * 1000 - ms is       *)
(* -r or 1000 - r spacings.                                                *)
(***************************************************************************)
RECURSIVE Pow2(_)
Pow2(n) == IF n <= 0 THEN 1 ELSE 2 * Pow2(n - 1)

RECURSIVE Pow2Mod(_, _, _)
\* a * 2^n mod M, ten doublings at a time
Pow2Mod(a, n, M) ==
  IF n <= 10 THEN (a * Pow2(n)) % M ELSE Pow2Mod((a * 1024) % M, n - 10, M)

RECURSIVE Log2Floor(_)
\* the exponent of the double n, for n >= 1
Log2Floor(n) == IF n < 2 THEN 0 ELSE 1 + Log2Floor(n \div 2)

RECURSIVE FracExp(_, _)
\* the least j' >= j with ms / 1000 >= 2^-j': minus the exponent of ms / 1000.0
FracExp(ms, j) == IF ms * Pow2(j) >= 1000 THEN j ELSE FracExp(ms, j + 1)

\* whether S + d rounds up, where d = RN(ms / 1000) lies r / 1000 of a spacing above a
\* double, once rounded itself to the c-th part of that spacing (c = 2^jc); qodd says
\* which neighbour a tie goes to
RoundsUp(r, qodd, jc) ==
  IF jc >= 8 THEN r > 500
  ELSE Let2(Pow2(jc), (r * Pow2(jc)) \div 1000 + (IF (r * Pow2(jc)) % 1000 > 500 THEN 1 ELSE 0),
            LAMBDA c, D : 2 * D > c \/ (2 * D = c /\ qodd))

\* 1000 * f - ms for f the fraction of the double S + ms / 1000.0, in units of
\* 2^(e-52) (of 2^-(52+j) when S = 0, where v = RN(ms / 1000))
FractionError(S, ms, j) ==
  IF S = 0
    THEN Let(Pow2Mod(ms, 52 + j, 1000), LAMBDA r : IF r < 500 THEN 0 - r ELSE 1000 - r)
    ELSE Let(Log2Floor(S), LAMBDA e :
           Let(Pow2Mod(ms, 52 - e, 2000), LAMBDA a :
             IF a % 1000 = 0 THEN 0
             ELSE IF RoundsUp(a % 1000, a >= 1000, j + e) THEN 1000 - (a % 1000)
             ELSE 0 - (a % 1000)))

\* int(RN(f * 1000)) where f * 1000 = ms + delta units and a unit is 2^-sh of the
\* spacing of the doubles at ms (b = floor(log2 ms)); below a power of two the doubles
\* lie twice as close
TruncatedProduct(ms, delta, sh, b) ==
  IF delta >= 0 THEN ms
  ELSE Let(IF ms = Pow2(b) THEN sh - 1 ELSE sh, LAMBDA sh2 :
         IF sh2 <= 0 THEN ms - 1
         ELSE IF (0 - 2 * delta) > Pow2(sh2) THEN ms - 1
         ELSE ms)

\* ms = int((s_float - s_int) * 1000) of seconds_to_time_str, for the double
\* S + ms / 1000.0
TruncMs(S, ms) ==
  IF ms = 0 THEN 0
  ELSE Let2(FracExp(ms, 1), Log2Floor(ms), LAMBDA j, b :
         Let(FractionError(S, ms, j), LAMBDA delta :
           TruncatedProduct(ms, delta, IF S = 0 THEN j + b ELSE b - Log2Floor(S), b)))

\* seconds_to_time_str(total_seconds) with force_MM_SS left at its default True;
\* total_seconds is None (<<>>) or <<t>>
seconds_to_time_str(total_seconds) ==
  IF total_seconds = None THEN <<"0","0",":","0","0",".","0","0","0">>
  ELSE Let(IF total_seconds[1] < 0 THEN 0 ELSE total_seconds[1], LAMBDA t :
         PadZero(NatStr(t \div 60000), 2) \o <<":">> \o PadZero(NatStr((t % 60000) \div 1000), 2)
           \o <<".">> \o PadZero(NatStr(TruncMs(t \div 1000, t % 1000)), 3))

(***************************************************************************)
(* The line patterns of SegmentManager.__init__, matched as re.match does. *)
(***************************************************************************)
\* \d{2}:\d{2}\.\d{3}
IsTimeStamp(s) ==
  /\ Len(s) = 9
  /\ \A i \in {1, 2, 4, 5, 7, 8, 9} : IsDigit(s[i])
  /\ s[3] = ":"
  /\ s[6] = "."

\* index of the first ":" of s, 0 if there is none
FirstColon(s) ==
  IF \A i \in 1..Len(s) : s[i] # ":" THEN 0
  ELSE CHOOSE i \in 1..Len(s) : s[i] = ":" /\ \A j \in 1..(i - 1) : s[j] # ":"

\* \s*([^:]+?):\s*(.*)$ matches r: a first colon with at least one character before it
MatchSpeakerText(r) == FirstColon(r) >= 2

\* group ([^:]+?) of that match, stripped
SpeakerGroup(r) == Let(FirstColon(r), LAMBDA k : Strip(SubSeq(r, 1, k - 1)))

\* group (.*) of that match, stripped
TextGroup(r) == Let(FirstColon(r), LAMBDA k : Strip(SubSeq(r, k + 1, Len(r))))

\* ^\[(TS)\] matches line
MatchStart(line) ==
  /\ Len(line) >= 11
  /\ line[1] = "["
  /\ IsTimeStamp(SubSeq(line, 2, 10))
  /\ line[11] = "]"

\* what follows "[TS" up to the second time stamp, after \s*-\s*
AfterDash(line) ==
  Let(LStrip(Drop(line, 10)), LAMBDA a :
    IF a # <<>> /\ Head(a) = "-" THEN LStrip(Tail(a)) ELSE <<>>)

\* ^\[(TS)\s*-\s*(TS)\] matches line
MatchStartEnd(line) ==
  /\ Len(line) >= 10
  /\ line[1] = "["
  /\ IsTimeStamp(SubSeq(line, 2, 10))
  /\ Let(AfterDash(line), LAMBDA e :
       Len(e) >= 10 /\ IsTimeStamp(SubSeq(e, 1, 9)) /\ e[10] = "]")

\* the fields of a line no pattern has parsed: text = line
PlainFields(line) ==
  [start_time |-> 0, end_time |-> None, speaker_raw |-> NO_SPEAKER_LABEL,
   text |-> line, has_timestamps |-> FALSE, has_explicit_end_time |-> FALSE]

\* pattern_start_end_ts_speaker, else pattern_start_end_ts_only; rest follows "]"
StartEndFields(line, ps, pe, rest) ==
  IF ps = None \/ pe = None THEN PlainFields(line)
  ELSE IF MatchSpeakerText(rest)
    THEN [start_time |-> ps[1], end_time |-> pe, speaker_raw |-> SpeakerGroup(rest),
          text |-> TextGroup(rest), has_timestamps |-> TRUE,
          has_explicit_end_time |-> TRUE]
  ELSE [start_time |-> ps[1], end_time |-> pe, speaker_raw |-> NO_SPEAKER_LABEL,
        text |-> Strip(rest), has_timestamps |-> TRUE, has_explicit_end_time |-> TRUE]

\* pattern_start_ts_speaker, else pattern_start_ts_only
StartFields(line, ps, rest) ==
  IF ps = None THEN PlainFields(line)
  ELSE IF MatchSpeakerText(rest)
    THEN [start_time |-> ps[1], end_time |-> None, speaker_raw |-> SpeakerGroup(rest),
          text |-> TextGroup(rest), has_timestamps |-> TRUE,
          has_explicit_end_time |-> FALSE]
  ELSE [start_time |-> ps[1], end_time |-> None, speaker_raw |-> NO_SPEAKER_LABEL,
        text |-> Strip(rest), has_timestamps |-> TRUE, has_explicit_end_time |-> FALSE]

\* the patterns of parse_transcription_lines, tried in its order on a stripped line
MatchedFields(line) ==
  IF MatchStartEnd(line)
    THEN Let(AfterDash(line), LAMBDA e :
           Let2(time_str_to_seconds(SubSeq(line, 2, 10)), time_str_to_seconds(SubSeq(e, 1, 9)),
                LAMBDA ps, pe : StartEndFields(line, ps, pe, Drop(e, 10))))
  ELSE IF MatchStart(line)
    THEN Let(time_str_to_seconds(SubSeq(line, 2, 10)), LAMBDA ps :
           StartFields(line, ps, Drop(line, 11)))
  ELSE IF MatchSpeakerText(line)
    THEN [start_time |-> 0, end_time |-> None, speaker_raw |-> SpeakerGroup(line),
          text |-> TextGroup(line), has_timestamps |-> FALSE,
          has_explicit_end_time |-> FALSE]
  ELSE PlainFields(line)

\* the fields parse_transcription_lines gives the segment of one stripped, non-blank
\* line: if not text.strip(): text = EMPTY_SEGMENT_PLACEHOLDER
ParseLine(line) ==
  Let(MatchedFields(line), LAMBDA f :
    [f EXCEPT !.text = IF Strip(@) = <<>> THEN EMPTY_SEGMENT_PLACEHOLDER ELSE @])

(***************************************************************************)
(* The object heap and the SegmentManager.                                 *)
(*                                                                         *)
(* A machine state m has the three heaps                                   *)
(*   m.dicts : address -> segment dict                                     *)
(*   m.lists : address -> list of addresses of segment dicts               *)
(*   m.maps  : address -> speaker map (a function label -> display name)   *)
(* the SegmentManager's fields                                             *)
(*   m.segments, m.speaker_map : addresses; m.unique_speaker_labels : a set*)
(* and m.next_id, the source of fresh segment ids.  The operations below   *)
(* take a machine state and give the one the method leaves.                *)
(***************************************************************************)
\* the segment dicts of the list at address l, in order
ListVal(m, l) == [i \in 1..Len(m.lists[l]) |-> m.dicts[m.lists[l][i]]]

\* the live segments, by value
Segs(m) == ListVal(m, m.segments)

\* the live speaker map, by value
SpeakerMap(m) == m.maps[m.speaker_map]

\* dict.get(key, default) on a speaker map
MapGet(mp, key, default) == IF key \in DOMAIN mp THEN mp[key] ELSE default

\* an id that is not drawn afresh: the same for every segment
NewSegmentId_Fixed(m) == 1

\* _generate_unique_segment_id: uuid4 is taken to give an id never given before
NewSegmentId(m) == m.next_id

\* get_segment_index: Python index (from 0) of the first segment with that id, -1 if none
get_segment_index(m, segment_id) ==
  Let({i \in 1..Len(m.lists[m.segments]) : m.dicts[m.lists[m.segments][i]].id = segment_id},
      LAMBDA hits :
        IF hits = {} THEN -1 ELSE (CHOOSE i \in hits : \A j \in hits : i <= j) - 1)

\* get_segment_by_id: address of the first segment dict with that id, 0 for None
get_segment_by_id(m, segment_id) ==
  Let(get_segment_index(m, segment_id), LAMBDA index :
    IF index = -1 THEN 0 ELSE m.lists[m.segments][index + 1])

\* a clearing that leaves the labels of the store before
clear_segments_KeepLabels(m) ==
  [m EXCEPT !.lists[m.segments] = <<>>,
            !.maps[m.speaker_map] = <<>>]

\* clear_segments: the three containers are emptied in place
clear_segments(m) ==
  [m EXCEPT !.lists[m.segments] = <<>>,
            !.maps[m.speaker_map] = <<>>,
            !.unique_speaker_labels = {}]

\* self.segments.append({...}) and unique_speaker_labels.add of parse_transcription_lines,
\* for the fields f of a line
AppendParsed(m, f) ==
  [m EXCEPT !.dicts = Append(@, [id |-> NewSegmentId(m), start_time |-> f.start_time,
                                 end_time |-> f.end_time, speaker_raw |-> f.speaker_raw,
                                 text |-> f.text, has_timestamps |-> f.has_timestamps,
                                 has_explicit_end_time |-> f.has_explicit_end_time]),
            !.lists[m.segments] = Append(@, Len(m.dicts) + 1),
            !.next_id = @ + 1,
            !.unique_speaker_labels =
               IF f.speaker_raw # NO_SPEAKER_LABEL THEN @ \cup {f.speaker_raw} ELSE @]

RECURSIVE ParseLines(_, _)
\* the loop of parse_transcription_lines: a line that is blank once stripped is skipped
ParseLines(m, text_lines) ==
  IF text_lines = <<>> THEN m
  ELSE Let(Strip(Head(text_lines)), LAMBDA line :
         IF line = <<>> THEN ParseLines(m, Tail(text_lines))
         ELSE Let(ParseLine(line), LAMBDA f :
                Let(AppendParsed(m, f), LAMBDA m1 : ParseLines(m1, Tail(text_lines)))))

parse_transcription_lines(m, text_lines) ==
  Let(clear_segments(m), LAMBDA m1 : ParseLines(m1, text_lines))

\* an update that notes the speaker label whether the segment is found or not
update_segment_speaker_NoteLabel(m, segment_id, new_speaker_raw) ==
  Let(get_segment_by_id(m, segment_id), LAMBDA a :
    [m EXCEPT !.dicts = IF a = 0 THEN @ ELSE [@ EXCEPT ![a].speaker_raw = new_speaker_raw],
              !.unique_speaker_labels =
                 IF new_speaker_raw # <<>> /\ new_speaker_raw # NO_SPEAKER_LABEL
                   THEN @ \cup {new_speaker_raw} ELSE @])

update_segment_speaker(m, segment_id, new_speaker_raw) ==
  Let(get_segment_by_id(m, segment_id), LAMBDA a :
    IF a = 0 THEN m
    ELSE [m EXCEPT !.dicts[a].speaker_raw = new_speaker_raw,
                   !.unique_speaker_labels =
                      IF new_speaker_raw # <<>> /\ new_speaker_raw # NO_SPEAKER_LABEL
                        THEN @ \cup {new_speaker_raw} ELSE @])

\* an update that sets has_explicit_end_time by the end string alone
update_segment_timestamps_EndAlone(m, segment_id, new_start_time_str, new_end_time_str) ==
  Let(get_segment_by_id(m, segment_id), LAMBDA a :
    IF a = 0 THEN m
    ELSE Let2(time_str_to_seconds(new_start_time_str), time_str_to_seconds(new_end_time_str),
              LAMBDA parsed_start_time, parsed_end_time :
                [m EXCEPT !.dicts[a].start_time =
                             IF parsed_start_time # None THEN parsed_start_time[1] ELSE 0,
                          !.dicts[a].end_time = parsed_end_time,
                          !.dicts[a].has_timestamps = parsed_start_time # None,
                          !.dicts[a].has_explicit_end_time = parsed_end_time # None]))

update_segment_timestamps(m, segment_id, new_start_time_str, new_end_time_str) ==
  Let(get_segment_by_id(m, segment_id), LAMBDA a :
    IF a = 0 THEN m
    ELSE Let2(time_str_to_seconds(new_start_time_str), time_str_to_seconds(new_end_time_str),
              LAMBDA parsed_start_time, parsed_end_time :
                [m EXCEPT !.dicts[a].start_time =
                             IF parsed_start_time # None THEN parsed_start_time[1] ELSE 0,
                          !.dicts[a].end_time = parsed_end_time,
                          !.dicts[a].has_timestamps = parsed_start_time # None,
                          !.dicts[a].has_explicit_end_time =
                             parsed_start_time # None /\ parsed_end_time # None]))

remove_segment_timestamp(m, segment_id) ==
  Let(get_segment_by_id(m, segment_id), LAMBDA a :
    IF a = 0 THEN m
    ELSE [m EXCEPT !.dicts[a].has_timestamps = FALSE,
                   !.dicts[a].has_explicit_end_time = FALSE,
                   !.dicts[a].start_time = 0,
                   !.dicts[a].end_time = None])

clear_segment_text(m, segment_id) ==
  Let(get_segment_by_id(m, segment_id), LAMBDA a :
    IF a = 0 THEN m ELSE [m EXCEPT !.dicts[a].text = EMPTY_SEGMENT_PLACEHOLDER])

\* the prefix update_segment_from_full_line rebuilds for the segment dict seg
CurrentPrefix(seg, mp) ==
  JoinNonEmpty(
    << IF seg.has_timestamps
         THEN <<"[">> \o seconds_to_time_str(Some(seg.start_time)) \o <<"]">> ELSE <<>>,
       IF seg.speaker_raw # <<>> /\ seg.speaker_raw # NO_SPEAKER_LABEL
         THEN MapGet(mp, seg.speaker_raw, seg.speaker_raw) \o <<":">> ELSE <<>> >>)

\* text_content of update_segment_from_full_line
TextContent(full_line_text, current_prefix) ==
  IF current_prefix # <<>> /\ StartsWith(full_line_text, current_prefix)
    THEN LStrip(Drop(full_line_text, Len(current_prefix)))
    ELSE full_line_text

\* text if text else EMPTY_SEGMENT_PLACEHOLDER
OrPlaceholder(text) == IF text # <<>> THEN text ELSE EMPTY_SEGMENT_PLACEHOLDER

update_segment_from_full_line(m, segment_id, full_line_text) ==
  Let(get_segment_by_id(m, segment_id), LAMBDA a :
    IF a = 0 THEN m
    ELSE IF Strip(full_line_text) = EMPTY_SEGMENT_PLACEHOLDER
      THEN [m EXCEPT !.dicts[a].text = EMPTY_SEGMENT_PLACEHOLDER]
    ELSE Let(CurrentPrefix(m.dicts[a], SpeakerMap(m)), LAMBDA current_prefix :
           Let(TextContent(full_line_text, current_prefix), LAMBDA text_content :
             [m EXCEPT !.dicts[a].text = OrPlaceholder(text_content)])))

\* dict.get(key, default) on the segment_data a caller passes: a record that may lack fields
DataGet(segment_data, key, default) ==
  IF key \in DOMAIN segment_data THEN segment_data[key] ELSE default

\* final_segment_data of add_segment
FinalSegmentData(new_id, segment_data) ==
  [id |-> new_id,
   text |-> DataGet(segment_data, "text", EMPTY_SEGMENT_PLACEHOLDER),
   speaker_raw |-> DataGet(segment_data, "speaker_raw", NO_SPEAKER_LABEL),
   start_time |-> DataGet(segment_data, "start_time", 0),
   end_time |-> DataGet(segment_data, "end_time", None),
   has_timestamps |-> DataGet(segment_data, "has_timestamps", FALSE),
   has_explicit_end_time |-> DataGet(segment_data, "has_explicit_end_time", FALSE)]

\* an index that puts the new segment below the reference whatever the position
InsertAtIndex_Below(m, reference_segment_id, position) ==
  IF reference_segment_id # 0
    THEN get_segment_index(m, reference_segment_id) + 1
    ELSE Len(m.lists[m.segments])

\* insert_at_index of add_segment
InsertAtIndex(m, reference_segment_id, position) ==
  IF reference_segment_id # 0
    THEN Let(get_segment_index(m, reference_segment_id), LAMBDA ref_index :
           IF position = "below" THEN ref_index + 1 ELSE ref_index)
    ELSE Len(m.lists[m.segments])

\* add_segment: the new dict is allocated, then inserted in place into the live list
add_segment(m, segment_data, reference_segment_id, position) ==
  Let2(FinalSegmentData(NewSegmentId(m), segment_data),
       InsertAtIndex(m, reference_segment_id, position),
       LAMBDA final_segment_data, insert_at_index :
         [m EXCEPT !.dicts = Append(@, final_segment_data),
                   !.lists[m.segments] = ListInsert(@, insert_at_index, Len(m.dicts) + 1),
                   !.next_id = @ + 1,
                   !.unique_speaker_labels =
                      IF final_segment_data.speaker_raw # NO_SPEAKER_LABEL
                        THEN @ \cup {final_segment_data.speaker_raw} ELSE @])

\* dict.update: the fields of props replace or extend those of data
DictUpdate(data, props) ==
  [k \in DOMAIN data \cup DOMAIN props |-> IF k \in DOMAIN props THEN props[k] ELSE data[k]]

\* a split that leaves the two parts of the text untrimmed
split_segment_Untrimmed(m, original_segment_id, text_split_index, new_segment_properties) ==
  Let(get_segment_by_id(m, original_segment_id), LAMBDA a :
    IF a = 0 THEN m
    ELSE Let2([m EXCEPT !.dicts[a].text = OrPlaceholder(Take(@, text_split_index))],
              DictUpdate([text |-> OrPlaceholder(Drop(m.dicts[a].text, text_split_index))],
                         new_segment_properties),
              LAMBDA m1, new_segment_data :
                add_segment(m1, new_segment_data, original_segment_id, "below")))

split_segment(m, original_segment_id, text_split_index, new_segment_properties) ==
  Let(get_segment_by_id(m, original_segment_id), LAMBDA a :
    IF a = 0 THEN m
    ELSE Let2(Strip(Take(m.dicts[a].text, text_split_index)),
              Strip(Drop(m.dicts[a].text, text_split_index)),
              LAMBDA text_for_original, text_for_new :
                Let2([m EXCEPT !.dicts[a].text = OrPlaceholder(text_for_original)],
                     DictUpdate([text |-> OrPlaceholder(text_for_new)], new_segment_properties),
                     LAMBDA m1, new_segment_data :
                       add_segment(m1, new_segment_data, original_segment_id, "below"))))

\* a removal that turns the remaining segments round
remove_segment_Reversed(m, segment_id_to_remove) ==
  Let(SelectSeq(m.lists[m.segments], LAMBDA a : m.dicts[a].id # segment_id_to_remove),
      LAMBDA kept :
        [m EXCEPT !.lists = Append(@, [i \in 1..Len(kept) |-> kept[Len(kept) + 1 - i]]),
                  !.segments = Len(m.lists) + 1])

\* remove_segment: self.segments is rebound to a new list; the dicts are shared
remove_segment(m, segment_id_to_remove) ==
  [m EXCEPT !.lists = Append(@, SelectSeq(m.lists[m.segments],
                                          LAMBDA a : m.dicts[a].id # segment_id_to_remove)),
            !.segments = Len(m.lists) + 1]

\* "" for the placeholder, as the two merge methods read a text
TextOrEmpty(text) == IF text = EMPTY_SEGMENT_PLACEHOLDER THEN <<>> ELSE text

\* a join that puts the space between the two sides even where one is empty
MergedText_AlwaysSpace(prev_text, curr_text) ==
  OrPlaceholder(TextOrEmpty(prev_text) \o <<" ">> \o TextOrEmpty(curr_text))

\* the text the two merge methods give the surviving segment
MergedText(prev_text, curr_text) ==
  Let2(TextOrEmpty(prev_text), TextOrEmpty(curr_text), LAMBDA p, c :
    OrPlaceholder(p \o (IF p # <<>> /\ c # <<>> THEN <<" ">> ELSE <<>>) \o c))

\* a merge that leaves the previous segment the end time it has
merge_segment_upwards_KeepEnd(m, segment_id) ==
  Let(get_segment_index(m, segment_id), LAMBDA index :
    IF index <= 0 THEN m
    ELSE Let2(m.dicts[m.lists[m.segments][index + 1]], m.lists[m.segments][index],
              LAMBDA current_segment, prev :
                [m EXCEPT !.dicts[prev].text = MergedText(@, current_segment.text),
                          !.lists[m.segments] =
                             SubSeq(@, 1, index) \o SubSeq(@, index + 2, Len(@))]))

\* merge_segment_upwards: the previous dict and the live list are changed in place
merge_segment_upwards(m, segment_id) ==
  Let(get_segment_index(m, segment_id), LAMBDA index :
    IF index <= 0 THEN m
    ELSE Let2(m.dicts[m.lists[m.segments][index + 1]], m.lists[m.segments][index],
              LAMBDA current_segment, prev :
                Let(current_segment.has_explicit_end_time /\ current_segment.end_time # None,
                    LAMBDA inherits :
                      [m EXCEPT !.dicts[prev].text = MergedText(@, current_segment.text),
                                !.dicts[prev].end_time =
                                   IF inherits THEN current_segment.end_time ELSE None,
                                !.dicts[prev].has_explicit_end_time = inherits,
                                !.lists[m.segments] =
                                   SubSeq(@, 1, index) \o SubSeq(@, index + 2, Len(@))])))

\* float('inf') for the sort key of an id that is not in the store
NoIndex(m) == Len(m.lists[m.segments]) + 1

\* the key of sorted(segment_ids, key=...) in merge_multiple_segments: id_to_index holds
\* the last index of an id
SortKey(m, seg_id) ==
  Let({i \in 1..Len(m.lists[m.segments]) : m.dicts[m.lists[m.segments][i]].id = seg_id},
      LAMBDA hits :
        IF hits = {} THEN NoIndex(m) ELSE CHOOSE i \in hits : \A j \in hits : j <= i)

RECURSIVE StableInsert(_, _, _)
\* x put into the sorted list s behind every element whose key is not greater
StableInsert(m, s, x) ==
  IF s = <<>> THEN <<x>>
  ELSE IF SortKey(m, Head(s)) <= SortKey(m, x) THEN <<Head(s)>> \o StableInsert(m, Tail(s), x)
  ELSE <<x>> \o s

RECURSIVE SortedIds(_, _)
\* sorted(segment_ids, key=...): Python's sort is stable
SortedIds(m, segment_ids) ==
  IF segment_ids = <<>> THEN <<>>
  ELSE Let(SortedIds(m, SubSeq(segment_ids, 1, Len(segment_ids) - 1)), LAMBDA s :
         StableInsert(m, s, segment_ids[Len(segment_ids)]))

\* a pass that puts the text merged in before the text of the target
MergeOne_Before(m, target, a) ==
  [m EXCEPT !.dicts[target].text = m.dicts[a].text \o <<" ">> \o @]

\* one pass of the for loop of merge_multiple_segments: the dict at a is merged into
\* the dict at target
MergeOne(m, target, a) ==
  Let(m.dicts[a], LAMBDA segment_to_merge :
    Let([m EXCEPT !.dicts[target].text = MergedText(@, segment_to_merge.text)], LAMBDA m1 :
      IF segment_to_merge.end_time # None
        THEN [m1 EXCEPT !.dicts[target].end_time = segment_to_merge.end_time,
                        !.dicts[target].has_explicit_end_time =
                           IF segment_to_merge.has_explicit_end_time THEN TRUE ELSE @]
        ELSE m1))

RECURSIVE MergeLoop(_, _, _, _)
\* the for loop of merge_multiple_segments: [m, ids_to_remove] after the ids of rest
MergeLoop(m, target, rest, ids_to_remove) ==
  IF rest = <<>> THEN [m |-> m, ids_to_remove |-> ids_to_remove]
  ELSE Let(get_segment_by_id(m, Head(rest)), LAMBDA a :
         IF a = 0 THEN MergeLoop(m, target, Tail(rest), ids_to_remove)
         ELSE Let(MergeOne(m, target, a), LAMBDA m1 :
                MergeLoop(m1, target, Tail(rest), ids_to_remove \cup {Head(rest)})))

\* what merge_multiple_segments returns: the surviving id, 0 for None
merge_multiple_result(m, segment_ids) ==
  IF Len(segment_ids) < 2 THEN 0
  ELSE Let(SortedIds(m, segment_ids), LAMBDA sorted_ids :
         IF get_segment_by_id(m, sorted_ids[1]) = 0 THEN 0 ELSE sorted_ids[1])

\* merge_multiple_segments: the target dict is changed in place, self.segments is rebound
merge_multiple_segments(m, segment_ids) ==
  IF Len(segment_ids) < 2 THEN m
  ELSE Let(SortedIds(m, segment_ids), LAMBDA sorted_ids :
         Let(get_segment_by_id(m, sorted_ids[1]), LAMBDA target :
           IF target = 0 THEN m
           ELSE Let(MergeLoop(m, target, Tail(sorted_ids), {}), LAMBDA r :
                  [r.m EXCEPT !.lists = Append(@, SelectSeq(r.m.lists[m.segments],
                                                 LAMBDA a : r.m.dicts[a].id \notin r.ids_to_remove)),
                              !.segments = Len(r.m.lists) + 1])))

\* a result that is true for every segment of the store, the first one too
merge_segment_upwards_result_Found(m, segment_id) == get_segment_index(m, segment_id) >= 0

\* what merge_segment_upwards returns
merge_segment_upwards_result(m, segment_id) == get_segment_index(m, segment_id) > 0

\* a line that holds the text of the segment as it is, placeholder or not
SavedLine_TextAsIs(seg, mp, include_timestamps, include_end_times) ==
  JoinNonEmpty(
    << IF include_timestamps /\ seg.has_timestamps
         THEN (IF include_end_times /\ seg.has_explicit_end_time /\ seg.end_time # None
                 THEN <<"[">> \o seconds_to_time_str(Some(seg.start_time)) \o <<" ", "-", " ">>
                        \o seconds_to_time_str(seg.end_time) \o <<"]">>
                 ELSE <<"[">> \o seconds_to_time_str(Some(seg.start_time)) \o <<"]">>)
         ELSE <<>>,
       IF seg.speaker_raw # NO_SPEAKER_LABEL
         THEN MapGet(mp, seg.speaker_raw, seg.speaker_raw) \o <<":">> ELSE <<>>,
       seg.text >>)

\* the line format_segments_for_saving writes for the segment dict seg
SavedLine(seg, mp, include_timestamps, include_end_times) ==
  JoinNonEmpty(
    << IF include_timestamps /\ seg.has_timestamps
         THEN (IF include_end_times /\ seg.has_explicit_end_time /\ seg.end_time # None
                 THEN <<"[">> \o seconds_to_time_str(Some(seg.start_time)) \o <<" ", "-", " ">>
                        \o seconds_to_time_str(seg.end_time) \o <<"]">>
                 ELSE <<"[">> \o seconds_to_time_str(Some(seg.start_time)) \o <<"]">>)
         ELSE <<>>,
       IF seg.speaker_raw # NO_SPEAKER_LABEL
         THEN MapGet(mp, seg.speaker_raw, seg.speaker_raw) \o <<":">> ELSE <<>>,
       TextOrEmpty(seg.text) >>)

\* format_segments_for_saving: the lines written, one per segment
format_segments_for_saving(m, include_timestamps, include_end_times) ==
  Let2(Segs(m), SpeakerMap(m), LAMBDA segs, mp :
    [i \in 1..Len(segs) |-> SavedLine(segs[i], mp, include_timestamps, include_end_times)])

(***************************************************************************)
(* copy.deepcopy and the snapshot command (core/undo_redo.py).             *)
(***************************************************************************)
\* a copy that is one level deep, list(self.segment_manager.segments): a new list of
\* the same dicts
DeepcopySegments_Shallow(w) == [w EXCEPT !.lists = Append(@, w.lists[w.segments])]

\* deepcopy(self.segment_manager.segments): new dicts and a new list, which is the
\* last list of the heap it returns
DeepcopySegments(w) ==
  Let2(w.lists[w.segments], Len(w.dicts), LAMBDA l, n :
    [w EXCEPT !.dicts = @ \o [i \in 1..Len(l) |-> w.dicts[l[i]]],
              !.lists = Append(@, [i \in 1..Len(l) |-> n + i])])

\* deepcopy(self.segment_manager.speaker_map): a new map, the last of the heap
DeepcopyMap(w) == [w EXCEPT !.maps = Append(@, w.maps[w.speaker_map])]

\* the label set re-derived from the keys of the restored map alone
DerivedLabels_KeysOnly(w) == DOMAIN w.maps[w.speaker_map]

\* the label set ModifyStateCommand re-derives from the map and the segments it restored
DerivedLabels(w) ==
  (DOMAIN w.maps[w.speaker_map])
    \cup ({w.dicts[w.lists[w.segments][i]].speaker_raw : i \in 1..Len(w.lists[w.segments])}
            \ {NO_SPEAKER_LABEL})

\* ModifyStateCommand.execute: the manager is pointed at the command's own objects
CommandExecute(w, command) ==
  Let([w EXCEPT !.segments = command.after_segments, !.speaker_map = command.after_map],
      LAMBDA w1 : [w1 EXCEPT !.unique_speaker_labels = DerivedLabels(w1)])

\* ModifyStateCommand.undo
CommandUndo(w, command) ==
  Let([w EXCEPT !.segments = command.before_segments, !.speaker_map = command.before_map],
      LAMBDA w1 : [w1 EXCEPT !.unique_speaker_labels = DerivedLabels(w1)])

(***************************************************************************)
(* The world: the machine state above extended with the UndoManager and    *)
(* the fields of CorrectionViewLogic.                                      *)
(*   w.undo_stack, w.redo_stack : lists of commands; a command holds the   *)
(*        addresses of its four snapshots                                  *)
(*   w.selected_segment_id, w.editing_segment_id,                          *)
(*   w.timestamp_editing_segment_id : a segment id, 0 for None             *)
(*   w.multi_selection_ids : list of segment ids                           *)
(*   w.original_text_before_edit : None or the text                        *)
(*   w.undo_enabled, w.redo_enabled : setEnabled of Undo_button/Redo_Button*)
(*   w.signals : the signals the running handler has emitted, in order     *)
(*   w.cmds : the number of commands created so far                        *)
(* A command also carries a history field, recorded: the value of its four *)
(* snapshots at the moment it was created.                                 *)
(***************************************************************************)
\* _update_undo_redo_buttons_state, the slot of UndoManager.state_changed
update_undo_redo_buttons_state(w, can_undo, can_redo) ==
  [w EXCEPT !.undo_enabled = can_undo, !.redo_enabled = can_redo]

\* UndoManager._emit_state_change
\* an announcement that takes both availabilities from the undo stack
emit_state_change_UndoOnly(w) ==
  Let([w EXCEPT !.signals = Append(@, "state_changed")], LAMBDA w1 :
    update_undo_redo_buttons_state(w1, Len(w.undo_stack) > 0, Len(w.undo_stack) > 0))

emit_state_change(w) ==
  Let([w EXCEPT !.signals = Append(@, "state_changed")], LAMBDA w1 :
    update_undo_redo_buttons_state(w1, Len(w.undo_stack) > 0, Len(w.redo_stack) > 0))

\* add_command without the clearing of the redo stack
add_command_KeepRedo(w, command) ==
  Let([w EXCEPT !.undo_stack = Append(@, command)], LAMBDA w1 : emit_state_change(w1))

\* UndoManager.add_command
add_command(w, command) ==
  Let([w EXCEPT !.redo_stack = IF @ # <<>> THEN <<>> ELSE @,
                !.undo_stack = Append(@, command)],
      LAMBDA w1 : emit_state_change(w1))

\* UndoManager.clear
undo_manager_clear(w) ==
  Let([w EXCEPT !.undo_stack = <<>>, !.redo_stack = <<>>], LAMBDA w1 : emit_state_change(w1))

\* CorrectionViewLogic._clear_all_selections
clear_all_selections(w) ==
  [w EXCEPT !.selected_segment_id = 0, !.multi_selection_ids = <<>>]

\* CorrectionViewLogic.select_segment
select_segment(w, segment_id) == [w EXCEPT !.selected_segment_id = segment_id]

\* CorrectionViewLogic.render_segments_to_textarea: what it does to the selection
render_segments_to_textarea(w) ==
  IF w.lists[w.segments] = <<>> THEN w
  ELSE [w EXCEPT !.selected_segment_id =
                    IF @ # 0 /\ get_segment_by_id(w, @) # 0 THEN @ ELSE 0,
                 !.multi_selection_ids =
                    SelectSeq(@, LAMBDA mid : get_segment_by_id(w, mid) # 0)]

\* the line render_segments_to_textarea writes for the segment dict seg
RenderedLine(seg, mp) ==
  (IF seg.has_timestamps
     THEN (IF seg.has_explicit_end_time /\ seg.end_time # None
             THEN <<"[">> \o seconds_to_time_str(Some(seg.start_time)) \o <<" ", "-", " ">>
                    \o seconds_to_time_str(seg.end_time) \o <<"]", " ">>
             ELSE <<"[">> \o seconds_to_time_str(Some(seg.start_time)) \o <<"]", " ">>)
     ELSE <<>>)
  \o (IF seg.speaker_raw # NO_SPEAKER_LABEL
        THEN MapGet(mp, seg.speaker_raw, seg.speaker_raw) \o <<":", " ">> ELSE <<>>)
  \o seg.text

\* the value of the four snapshots of a command, read through its addresses
SnapshotValue(w, command) ==
  [before_segments |-> ListVal(w, command.before_segments),
   before_map |-> w.maps[command.before_map],
   after_segments |-> ListVal(w, command.after_segments),
   after_map |-> w.maps[command.after_map]]

\* ModifyStateCommand.__init__: the command keeps the four objects it is given
ModifyStateCommand(w, before_segments, after_segments, before_map, after_map) ==
  Let([before_segments |-> before_segments, after_segments |-> after_segments,
       before_map |-> before_map, after_map |-> after_map],
      LAMBDA command :
        [before_segments |-> before_segments, after_segments |-> after_segments,
         before_map |-> before_map, after_map |-> after_map,
         recorded |-> SnapshotValue(w, command)])

\* CorrectionViewLogic._execute_command, once action_func has run: w is the world the
\* action left, the before snapshots are at the addresses before_segments, before_map
execute_command(w, before_segments, before_map) ==
  Let(DeepcopySegments(w), LAMBDA w1 :
    Let(DeepcopyMap(w1), LAMBDA w2 :
      Let2(ModifyStateCommand(w2, before_segments, Len(w2.lists), before_map, Len(w2.maps)),
           [w2 EXCEPT !.cmds = @ + 1],
           LAMBDA command, w3 : add_command(w3, command))))

\* the two deepcopy calls a handler starts with; the copies are the last list and map
TakeBefore(w) == Let(DeepcopySegments(w), LAMBDA w1 : DeepcopyMap(w1))

\* undo that forgets the command it has undone: nothing is pushed on the redo stack
undo_manager_undo_Forget(w) ==
  IF w.undo_stack = <<>> THEN w
  ELSE Let2(w.undo_stack[Len(w.undo_stack)],
            [w EXCEPT !.undo_stack = SubSeq(@, 1, Len(@) - 1)],
            LAMBDA command, w1 :
              Let(CommandUndo(w1, command), LAMBDA w2 :
                Let([w2 EXCEPT !.signals = Append(@, "history_changed")],
                    LAMBDA w3 :
                      Let(render_segments_to_textarea(w3), LAMBDA w4 : emit_state_change(w4)))))

\* UndoManager.undo, with the slot of history_changed
undo_manager_undo(w) ==
  IF w.undo_stack = <<>> THEN w
  ELSE Let2(w.undo_stack[Len(w.undo_stack)],
            [w EXCEPT !.undo_stack = SubSeq(@, 1, Len(@) - 1)],
            LAMBDA command, w1 :
              Let(CommandUndo(w1, command), LAMBDA w2 :
                Let([w2 EXCEPT !.redo_stack = Append(@, command),
                               !.signals = Append(@, "history_changed")],
                    LAMBDA w3 :
                      Let(render_segments_to_textarea(w3), LAMBDA w4 : emit_state_change(w4)))))

\* redo that tells the view to refresh before it looks at the redo stack
undo_manager_redo_Notify(w) ==
  IF w.redo_stack = <<>> THEN [w EXCEPT !.signals = Append(@, "history_changed")]
  ELSE Let2(w.redo_stack[Len(w.redo_stack)],
            [w EXCEPT !.redo_stack = SubSeq(@, 1, Len(@) - 1)],
            LAMBDA command, w1 :
              Let(CommandExecute(w1, command), LAMBDA w2 :
                Let([w2 EXCEPT !.undo_stack = Append(@, command),
                               !.signals = Append(@, "history_changed")],
                    LAMBDA w3 :
                      Let(render_segments_to_textarea(w3), LAMBDA w4 : emit_state_change(w4)))))

\* redo that takes the command undone first, from the bottom of the redo stack
undo_manager_redo_Oldest(w) ==
  IF w.redo_stack = <<>> THEN w
  ELSE Let2(w.redo_stack[1],
            [w EXCEPT !.redo_stack = Tail(@)],
            LAMBDA command, w1 :
              Let(CommandExecute(w1, command), LAMBDA w2 :
                Let([w2 EXCEPT !.undo_stack = Append(@, command),
                               !.signals = Append(@, "history_changed")],
                    LAMBDA w3 :
                      Let(render_segments_to_textarea(w3), LAMBDA w4 : emit_state_change(w4)))))

\* UndoManager.redo, with the slot of history_changed
undo_manager_redo(w) ==
  IF w.redo_stack = <<>> THEN w
  ELSE Let2(w.redo_stack[Len(w.redo_stack)],
            [w EXCEPT !.redo_stack = SubSeq(@, 1, Len(@) - 1)],
            LAMBDA command, w1 :
              Let(CommandExecute(w1, command), LAMBDA w2 :
                Let([w2 EXCEPT !.undo_stack = Append(@, command),
                               !.signals = Append(@, "history_changed")],
                    LAMBDA w3 :
                      Let(render_segments_to_textarea(w3), LAMBDA w4 : emit_state_change(w4)))))

\* the save branch of exit_timestamp_edit_mode: the start time becomes the position of
\* the start bar, the end time None
SaveStartBar(w, id_to_reselect, start_bar_pos_secs) ==
  Let(seconds_to_time_str(Some(start_bar_pos_secs)), LAMBDA time_str :
    Let(update_segment_timestamps(w, id_to_reselect, time_str, None), LAMBDA w1 :
      render_segments_to_textarea(w1)))

\* CorrectionViewLogic.exit_timestamp_edit_mode; start_bar_pos_secs is the position of
\* the start bar of the timeline, in milliseconds
exit_timestamp_edit_mode(w, save, start_bar_pos_secs) ==
  IF w.timestamp_editing_segment_id = 0 THEN w
  ELSE Let2(w.timestamp_editing_segment_id,
            IF save THEN SaveStartBar(w, w.timestamp_editing_segment_id, start_bar_pos_secs)
            ELSE w,
            LAMBDA id_to_reselect, w1 :
              Let([w1 EXCEPT !.timestamp_editing_segment_id = 0], LAMBDA w2 :
                IF get_segment_by_id(w2, id_to_reselect) # 0
                  THEN select_segment(w2, id_to_reselect) ELSE w2))

\* the save branch of exit_edit_mode: the line of the block is written into the segment,
\* and a command is recorded if that changed the text the edit started from
SaveEditedLine(w, segment_id_to_exit, line_text) ==
  Let(TakeBefore(w), LAMBDA wb :
    Let(IF get_segment_index(wb, segment_id_to_exit) # -1
          THEN update_segment_from_full_line(wb, segment_id_to_exit, line_text)
          ELSE wb,
        LAMBDA wc :
          Let(get_segment_by_id(wc, segment_id_to_exit), LAMBDA segment_after_update :
            IF segment_after_update # 0
                 /\ w.original_text_before_edit # Some(wc.dicts[segment_after_update].text)
              THEN Let(render_segments_to_textarea(wc), LAMBDA wr :
                     execute_command(wr, Len(wb.lists), Len(wb.maps)))
              ELSE wc)))

\* CorrectionViewLogic.exit_edit_mode; line_text is the text of the edited block
exit_edit_mode(w, save, line_text) ==
  IF w.editing_segment_id = 0 THEN w
  ELSE Let2(w.editing_segment_id,
            IF save THEN SaveEditedLine(w, w.editing_segment_id, line_text) ELSE w,
            LAMBDA segment_id_to_exit, w1 :
              Let([w1 EXCEPT !.editing_segment_id = 0, !.original_text_before_edit = None],
                  LAMBDA w2 :
                    Let(IF ~save THEN render_segments_to_textarea(w2) ELSE w2, LAMBDA w3 :
                      IF get_segment_by_id(w3, segment_id_to_exit) # 0
                        THEN select_segment(w3, segment_id_to_exit)
                        ELSE clear_all_selections(w3))))

\* CorrectionViewLogic.exit_all_edit_modes
exit_all_edit_modes(w, save, line_text) ==
  Let(IF w.editing_segment_id # 0 THEN exit_edit_mode(w, save, line_text) ELSE w, LAMBDA w1 :
    IF w1.timestamp_editing_segment_id # 0
      THEN exit_timestamp_edit_mode(w1, FALSE, 0) ELSE w1)

\* CorrectionViewLogic.enter_edit_mode
enter_edit_mode(w, segment_id, line_text) ==
  IF w.editing_segment_id = segment_id \/ w.timestamp_editing_segment_id # 0 THEN w
  ELSE Let(exit_all_edit_modes(w, TRUE, line_text), LAMBDA w1 :
         Let(get_segment_by_id(w1, segment_id), LAMBDA segment_obj :
           IF segment_obj = 0 THEN w1
           ELSE Let([w1 EXCEPT !.original_text_before_edit = Some(w1.dicts[segment_obj].text),
                               !.editing_segment_id = segment_id],
                    LAMBDA w2 : select_segment(w2, segment_id))))

\* CorrectionViewLogic.enter_timestamp_edit_mode
enter_timestamp_edit_mode(w, segment_id) ==
  Let(exit_all_edit_modes(w, FALSE, <<>>), LAMBDA w1 :
    Let(get_segment_by_id(w1, segment_id), LAMBDA segment :
      IF segment = 0 \/ ~w1.dicts[segment].has_timestamps THEN w1
      ELSE Let([w1 EXCEPT !.timestamp_editing_segment_id = segment_id], LAMBDA w2 :
             select_segment(w2, segment_id))))

(***************************************************************************)
(* The handlers of CorrectionViewLogic, as operators on the world.  What   *)
(* the user does inside a handler (the answer to a dialog, the text typed  *)
(* into the edited block, the position of the cursor or of the start bar)  *)
(* is a parameter.                                                         *)
(***************************************************************************)
\* _load_files_action; read_ok is whether open(txt).readlines() succeeded
load_files_action(w, lines, read_ok) ==
  Let(undo_manager_clear(w), LAMBDA w1 :
    Let(select_segment(w1, 0), LAMBDA w2 :
      IF read_ok
        THEN Let(parse_transcription_lines(w2, lines), LAMBDA w3 :
               render_segments_to_textarea(w3))
        ELSE w2))

\* the ids of the segments of blocks lo..hi (Python indexes)
BlockIds(w, lo, hi) ==
  [i \in 1..(hi - lo + 1) |-> w.dicts[w.lists[w.segments][lo + i]].id]

\* self.segment_manager.segments[block_number]['id']
BlockId(w, block_number) == w.dicts[w.lists[w.segments][block_number + 1]].id

\* 0 <= block_number < len(self.segment_manager.segments)
ValidBlock(w, block_number) == 0 <= block_number /\ block_number < Len(w.lists[w.segments])

\* CorrectionViewLogic.select_segment_by_block
select_segment_by_block(w, block_number) ==
  IF ValidBlock(w, block_number) THEN select_segment(w, BlockId(w, block_number)) ELSE w

\* on_segment_clicked while a block or a time stamp is being edited
ClickedWhileEditing(w, block_number, line_text) ==
  Let(IF ValidBlock(w, block_number) THEN BlockId(w, block_number) ELSE 0, LAMBDA clicked_id :
    IF w.editing_segment_id = clicked_id \/ w.timestamp_editing_segment_id = clicked_id
      THEN w
      ELSE Let(exit_all_edit_modes(w, TRUE, line_text), LAMBDA w1 :
             IF ValidBlock(w, block_number) THEN select_segment_by_block(w1, block_number)
             ELSE w1))

\* on_segment_clicked with the shift key, on the valid block of segment_id
ShiftClicked(w, block_number, segment_id) ==
  IF w.selected_segment_id # 0 /\ w.selected_segment_id # segment_id
    THEN Let2(get_segment_index(w, w.selected_segment_id), clear_all_selections(w),
              LAMBDA start_index, w1 :
                [w1 EXCEPT !.multi_selection_ids =
                   IF start_index > block_number THEN BlockIds(w, block_number, start_index)
                   ELSE BlockIds(w, start_index, block_number)])
  ELSE IF segment_id \notin Range(w.multi_selection_ids)
    THEN [w EXCEPT !.multi_selection_ids = Append(@, segment_id)]
  ELSE [w EXCEPT !.multi_selection_ids = SelectSeq(@, LAMBDA x : x # segment_id)]

\* on_segment_clicked; line_text is the text of the block being edited, if any
on_segment_clicked(w, block_number, is_shift_pressed, line_text) ==
  IF w.editing_segment_id # 0 \/ w.timestamp_editing_segment_id # 0
    THEN ClickedWhileEditing(w, block_number, line_text)
  ELSE IF ~ValidBlock(w, block_number) THEN clear_all_selections(w)
  ELSE IF is_shift_pressed THEN ShiftClicked(w, block_number, BlockId(w, block_number))
  ELSE Let(clear_all_selections(w), LAMBDA w1 : select_segment_by_block(w1, block_number))

RECURSIVE RemoveAll(_, _)
\* the loop of on_delete_segment_clicked over the ids it has sorted
RemoveAll(w, ids) ==
  IF ids = <<>> THEN w
  ELSE Let(remove_segment(w, Head(ids)), LAMBDA w1 : RemoveAll(w1, Tail(ids)))

RECURSIVE SortedByIndexDesc(_, _)
\* sorted(target_ids, key=get_segment_index, reverse=True)
SortedByIndexDesc(w, ids) ==
  IF ids = <<>> THEN <<>>
  ELSE Let(CHOOSE i \in 1..Len(ids) :
             \A j \in 1..Len(ids) :
                \/ get_segment_index(w, ids[i]) > get_segment_index(w, ids[j])
                \/ (get_segment_index(w, ids[i]) = get_segment_index(w, ids[j]) /\ i <= j),
           LAMBDA k :
             <<ids[k]>>
               \o SortedByIndexDesc(w, SubSeq(ids, 1, k - 1) \o SubSeq(ids, k + 1, Len(ids))))

\* self._execute_command(before_segs, before_map, render_segments_to_textarea), where
\* wb is the world in which the two before copies were taken
RecordRendered(w, wb) ==
  Let(render_segments_to_textarea(w), LAMBDA wr :
    execute_command(wr, Len(wb.lists), Len(wb.maps)))

\* on_delete_segment_clicked while a time stamp is edited: the time stamp is removed
DeleteTimestamp(wb) ==
  Let(remove_segment_timestamp(wb, wb.timestamp_editing_segment_id), LAMBDA w1 :
    Let(exit_timestamp_edit_mode(w1, FALSE, 0), LAMBDA w2 : RecordRendered(w2, wb)))

\* on_delete_segment_clicked while a block is edited: its text is cleared
DeleteText(wb) ==
  Let(clear_segment_text(wb, wb.editing_segment_id), LAMBDA w1 :
    Let(exit_edit_mode(w1, FALSE, <<>>), LAMBDA w2 : RecordRendered(w2, wb)))

\* on_delete_segment_clicked outside the edit modes: the selected segments are removed
DeleteSegments(wb, target_ids) ==
  Let(SortedByIndexDesc(wb, target_ids), LAMBDA ids :
    Let(RemoveAll(wb, ids), LAMBDA w1 :
      Let(clear_all_selections(w1), LAMBDA w2 : RecordRendered(w2, wb))))

\* target_ids of on_delete_segment_clicked
DeleteTargets(w) ==
  IF w.multi_selection_ids # <<>> THEN w.multi_selection_ids
  ELSE IF w.selected_segment_id # 0 THEN <<w.selected_segment_id>>
  ELSE <<>>

\* on_delete_segment_clicked; confirmed is the answer to the question box
on_delete_segment_clicked(w, confirmed) ==
  Let(TakeBefore(w), LAMBDA wb :
    IF wb.timestamp_editing_segment_id # 0
      THEN (IF confirmed THEN DeleteTimestamp(wb) ELSE w)
    ELSE IF wb.editing_segment_id # 0
      THEN (IF confirmed THEN DeleteText(wb) ELSE w)
    ELSE IF DeleteTargets(wb) # <<>> /\ confirmed
      THEN DeleteSegments(wb, DeleteTargets(wb))
    ELSE w)

\* what _open_add_split_dialog returns when accepted: ts_type is the entry chosen in
\* the time-stamp combo box, position the radio button (add mode only)
AddDialogResult(speaker_raw, ts_type, position) ==
  [speaker_raw |-> speaker_raw,
   has_timestamps |-> ts_type # "none",
   has_explicit_end_time |-> ts_type = "start_end",
   position |-> position]

SplitDialogResult(speaker_raw, ts_type) ==
  [speaker_raw |-> speaker_raw,
   has_timestamps |-> ts_type # "none",
   has_explicit_end_time |-> ts_type = "start_end"]

\* a split that records the commit of the edited line as a command of its own
SplitEdited_TwoCommands(wb, line_text, split_pos, accepted, result) ==
  Let(update_segment_from_full_line(wb, wb.editing_segment_id, line_text), LAMBDA wc :
    IF ~accepted THEN wc
    ELSE Let(TakeBefore(RecordRendered(wc, wb)), LAMBDA wd :
           Let(split_segment(wd, wb.editing_segment_id, split_pos, result), LAMBDA w1 :
             Let(exit_edit_mode(w1, FALSE, <<>>), LAMBDA w2 : RecordRendered(w2, wd)))))

\* on_add_split_button_clicked while a block is edited: the line of the block is written
\* into the segment, then the dialog opens and returns result if it is accepted
SplitEdited(wb, line_text, split_pos, accepted, result) ==
  Let(update_segment_from_full_line(wb, wb.editing_segment_id, line_text), LAMBDA wc :
    IF ~accepted THEN wc
    ELSE Let(split_segment(wc, wb.editing_segment_id, split_pos, result), LAMBDA w1 :
           Let(exit_edit_mode(w1, FALSE, <<>>), LAMBDA w2 : RecordRendered(w2, wb))))

\* on_add_split_button_clicked on a selected block, the dialog accepted with result
AddToSelected(wb, result) ==
  Let(add_segment(wb, result, wb.selected_segment_id, result.position), LAMBDA w1 :
    Let(clear_all_selections(w1), LAMBDA w2 :
      Let(select_segment(w2, NewSegmentId(wb)), LAMBDA w3 : RecordRendered(w3, wb))))

\* on_add_split_button_clicked; accepted is whether the dialog was accepted, line_text
\* the text of the edited block and split_pos the cursor position in its text
on_add_split_button_clicked(w, accepted, speaker_raw, ts_type, position, line_text, split_pos) ==
  Let(TakeBefore(w), LAMBDA wb :
    IF wb.editing_segment_id # 0 THEN
      IF get_segment_by_id(wb, wb.editing_segment_id) = 0 THEN w
      ELSE SplitEdited(wb, line_text, split_pos, accepted,
                       SplitDialogResult(speaker_raw, ts_type))
    ELSE IF wb.selected_segment_id # 0 /\ accepted
      THEN AddToSelected(wb, AddDialogResult(speaker_raw, ts_type, position))
    ELSE w)

\* the action on_merge_button_clicked hands to _execute_command, and the command
MergeRecorded(w, wb, new_target_id) ==
  Let(clear_all_selections(w), LAMBDA w1 :
    Let(render_segments_to_textarea(w1), LAMBDA w2 :
      Let(select_segment(w2, new_target_id), LAMBDA w3 :
        execute_command(w3, Len(wb.lists), Len(wb.maps)))))

\* on_merge_button_clicked with more than one segment in the multi-selection
MergeMulti(we, wb) ==
  Let(merge_multiple_result(we, we.multi_selection_ids), LAMBDA new_target_id :
    IF new_target_id = 0 THEN we
    ELSE Let(merge_multiple_segments(we, we.multi_selection_ids), LAMBDA w1 :
           MergeRecorded(w1, wb, new_target_id)))

\* on_merge_button_clicked with one selected segment
MergeSingle(we, wb) ==
  Let(get_segment_index(we, we.selected_segment_id), LAMBDA current_index :
    IF current_index <= 0 THEN we
    ELSE Let2(BlockId(we, current_index - 1),
              merge_segment_upwards(we, we.selected_segment_id),
              LAMBDA previous_id, w1 : MergeRecorded(w1, wb, previous_id)))

\* on_merge_button_clicked
on_merge_button_clicked(w) ==
  Let(TakeBefore(w), LAMBDA wb :
    Let(exit_all_edit_modes(wb, FALSE, <<>>), LAMBDA we :
      IF Len(we.multi_selection_ids) > 1 THEN MergeMulti(we, wb)
      ELSE IF we.selected_segment_id # 0 /\ Len(we.multi_selection_ids) = 0
        THEN MergeSingle(we, wb)
      ELSE we))

RECURSIVE UpdateSpeakers(_, _, _)
\* the loop of the action of _open_change_speaker_dialog
UpdateSpeakers(w, target_ids, speaker_to_set) ==
  IF target_ids = <<>> THEN w
  ELSE Let(update_segment_speaker(w, Head(target_ids), speaker_to_set), LAMBDA w1 :
         UpdateSpeakers(w1, Tail(target_ids), speaker_to_set))

\* _open_change_speaker_dialog, which _safe_action runs once it has left the edit modes;
\* accepted is FALSE when the dialog is cancelled
open_change_speaker_dialog(w, target_ids, accepted, speaker_to_set) ==
  Let(TakeBefore(w), LAMBDA wb :
    IF accepted
      THEN Let(UpdateSpeakers(wb, target_ids, speaker_to_set), LAMBDA w1 :
             RecordRendered(w1, wb))
      ELSE wb)

\* target_ids of on_edit_speaker_clicked
SpeakerTargets(w) ==
  IF w.selected_segment_id # 0 /\ w.selected_segment_id \notin Range(w.multi_selection_ids)
    THEN <<w.selected_segment_id>>
  ELSE w.multi_selection_ids

\* on_edit_speaker_clicked; speaker_to_set is the entry chosen in the dialog
\* (NO_SPEAKER_LABEL for its delete button), line_text the text of the block being
\* edited, if any
on_edit_speaker_clicked(w, accepted, speaker_to_set, line_text) ==
  Let(SpeakerTargets(w), LAMBDA target_ids :
    IF target_ids = <<>> THEN w
    ELSE IF get_segment_by_id(w, target_ids[1]) = 0 THEN w
    ELSE Let(exit_all_edit_modes(w, TRUE, line_text), LAMBDA w1 :
           open_change_speaker_dialog(w1, target_ids, accepted, speaker_to_set)))

\* on_edit_button_clicked
on_edit_button_clicked(w, line_text) ==
  IF w.editing_segment_id # 0 THEN exit_edit_mode(w, TRUE, line_text)
  ELSE IF w.selected_segment_id # 0 THEN enter_edit_mode(w, w.selected_segment_id, line_text)
  ELSE w

\* on_timestamp_edit_button_clicked
on_timestamp_edit_button_clicked(w) ==
  IF w.timestamp_editing_segment_id # 0 THEN exit_timestamp_edit_mode(w, FALSE, 0)
  ELSE IF w.selected_segment_id # 0 THEN enter_timestamp_edit_mode(w, w.selected_segment_id)
  ELSE w

\* on_save_timestamp_clicked
on_save_timestamp_clicked(w, start_bar_pos_secs) ==
  Let(TakeBefore(w), LAMBDA wb :
    Let(exit_timestamp_edit_mode(wb, TRUE, start_bar_pos_secs), LAMBDA w1 :
      execute_command(w1, Len(wb.lists), Len(wb.maps))))

\* _save_changes_action: the history is cleared before the file dialog opens, so the
\* world it leaves does not depend on whether a path was chosen or the write succeeded
save_changes_action(w, path, write_ok) ==
  IF w.lists[w.segments] = <<>> THEN w ELSE undo_manager_clear(w)

\* str.upper() on the letters of the model
Upper(c) ==
  IF c = "a" THEN "A" ELSE IF c = "b" THEN "B" ELSE IF c = "c" THEN "C"
  ELSE IF c = "n" THEN "N" ELSE c

\* id_edit.text().strip().replace(" ", "_").upper()
NormalizedId(typed) ==
  Let(Strip(typed), LAMBDA t : [i \in 1..Len(t) |-> IF t[i] = " " THEN "_" ELSE Upper(t[i])])

\* a speaker map with key set to value (d[key] = value)
MapSet(mp, key, value) ==
  [k \in DOMAIN mp \cup {key} |-> IF k = key THEN value ELSE mp[k]]

\* a speaker map without key (del d[key])
MapDel(mp, key) == [k \in DOMAIN mp \ {key} |-> mp[k]]

\* the loop over the entries of the speaker assignment dialog: only the line edit the
\* user retyped, that of the label edited, differs from what the map holds
AssignEntries(w, edited, name_typed) ==
  IF edited \notin w.unique_speaker_labels THEN w
  ELSE IF Strip(name_typed) # <<>>
    THEN [w EXCEPT !.maps[w.speaker_map] = MapSet(@, edited, Strip(name_typed))]
  ELSE [w EXCEPT !.maps[w.speaker_map] = MapDel(@, edited)]

\* the "Add New" rows of the speaker assignment dialog
AssignNew(w, new_id, new_name_typed) ==
  IF new_id = <<>> THEN w
  ELSE [w EXCEPT !.unique_speaker_labels = @ \cup {new_id},
                 !.maps[w.speaker_map] =
                    IF Strip(new_name_typed) # <<>> THEN MapSet(@, new_id, Strip(new_name_typed))
                    ELSE @]

\* _open_speaker_assignment_dialog_action, accepted: the user has typed name_typed into
\* the line edit of the label edited (left the others as they were filled in), and
\* id_typed and new_name_typed into the two "Add New" line edits
speaker_assignment_accepted(w, edited, name_typed, id_typed, new_name_typed) ==
  IF w.lists[w.segments] = <<>> THEN w
  ELSE Let(TakeBefore(w), LAMBDA wb :
         Let(AssignEntries(wb, edited, name_typed), LAMBDA w1 :
           Let(AssignNew(w1, NormalizedId(id_typed), new_name_typed), LAMBDA w2 :
             RecordRendered(w2, wb))))

(***************************************************************************)
(* Garbage collection.  Objects that neither the SegmentManager nor a      *)
(* command on a stack refers to are dropped and the others renumbered in   *)
(* the order in which they are reached, so that two states of the program  *)
(* that differ only in addresses are one state of the model.               *)
(***************************************************************************)
RECURSIVE Dedup(_)
Dedup(s) ==
  IF s = <<>> THEN <<>>
  ELSE Let(Dedup(SubSeq(s, 1, Len(s) - 1)), LAMBDA r :
         IF s[Len(s)] \in Range(r) THEN r ELSE Append(r, s[Len(s)]))

IndexOf(s, x) == CHOOSE i \in 1..Len(s) : s[i] = x

RECURSIVE Cat(_)
Cat(ss) == IF ss = <<>> THEN <<>> ELSE Head(ss) \o Cat(Tail(ss))

\* the command c with its addresses renumbered
Renumbered(c, lorder, morder) ==
  [c EXCEPT !.before_segments = IndexOf(lorder, @),
            !.after_segments = IndexOf(lorder, @),
            !.before_map = IndexOf(morder, @),
            !.after_map = IndexOf(morder, @)]

\* the lists, the maps and the dicts that are reachable, in the order they are reached
ReachableLists(w, commands) ==
  Dedup(<<w.segments>>
          \o Cat([i \in 1..Len(commands) |->
                    <<commands[i].before_segments, commands[i].after_segments>>]))

ReachableMaps(w, commands) ==
  Dedup(<<w.speaker_map>>
          \o Cat([i \in 1..Len(commands) |-> <<commands[i].before_map, commands[i].after_map>>]))

ReachableDicts(w, lorder) == Dedup(Cat([i \in 1..Len(lorder) |-> w.lists[lorder[i]]]))

Renumber(w, lorder, morder, dorder) ==
  [w EXCEPT
     !.dicts = [i \in 1..Len(dorder) |-> w.dicts[dorder[i]]],
     !.lists = [i \in 1..Len(lorder) |->
                  [j \in 1..Len(w.lists[lorder[i]]) |-> IndexOf(dorder, w.lists[lorder[i]][j])]],
     !.maps = [i \in 1..Len(morder) |-> w.maps[morder[i]]],
     !.segments = 1,
     !.speaker_map = 1,
     !.undo_stack = [i \in 1..Len(w.undo_stack) |-> Renumbered(w.undo_stack[i], lorder, morder)],
     !.redo_stack = [i \in 1..Len(w.redo_stack) |-> Renumbered(w.redo_stack[i], lorder, morder)]]

Canon(w) ==
  Let(w.undo_stack \o w.redo_stack, LAMBDA commands :
    Let2(ReachableLists(w, commands), ReachableMaps(w, commands), LAMBDA lorder, morder :
      Let(ReachableDicts(w, lorder), LAMBDA dorder : Renumber(w, lorder, morder, dorder))))

(***************************************************************************)
(* State.                                                                  *)
(***************************************************************************)
VARIABLES
  dicts, lists, maps,                       \* the heaps
  segments, speaker_map,                    \* SegmentManager: addresses of the live objects
  unique_speaker_labels, next_id,
  undo_stack, redo_stack,                   \* UndoManager
  selected_segment_id, multi_selection_ids, \* CorrectionViewLogic
  editing_segment_id, timestamp_editing_segment_id, original_text_before_edit,
  undo_enabled, redo_enabled,               \* the two buttons
  signals,                                  \* signals emitted by the last handler
  cmds,                                     \* commands created so far
  last_op,                                  \* history: the last handler run
  law,                                      \* history: the store around the last edit
  loads,                                    \* transcripts loaded so far
  call,                                     \* history: the last direct call of a method
  base                                      \* history: the store when the history was
                                            \* last cleared

vars ==
  <<dicts, lists, maps, segments, speaker_map, unique_speaker_labels, next_id,
    undo_stack, redo_stack, selected_segment_id, multi_selection_ids,
    editing_segment_id, timestamp_editing_segment_id, original_text_before_edit,
    undo_enabled, redo_enabled, signals, cmds, last_op, law, loads, call, base>>

\* the state as a world, at the start of a handler
World ==
  [dicts |-> dicts, lists |-> lists, maps |-> maps, segments |-> segments,
   speaker_map |-> speaker_map, unique_speaker_labels |-> unique_speaker_labels,
   next_id |-> next_id, undo_stack |-> undo_stack, redo_stack |-> redo_stack,
   selected_segment_id |-> selected_segment_id,
   multi_selection_ids |-> multi_selection_ids,
   editing_segment_id |-> editing_segment_id,
   timestamp_editing_segment_id |-> timestamp_editing_segment_id,
   original_text_before_edit |-> original_text_before_edit,
   undo_enabled |-> undo_enabled, redo_enabled |-> redo_enabled,
   signals |-> <<>>, cmds |-> cmds]

\* segments and speaker map of a world, by value
StoreVal(w) == [segments |-> Segs(w), speaker_map |-> SpeakerMap(w)]

NoLaw == [phase |-> "none"]

\* the history variable call where no method of the store has been called directly
NoCall == [op |-> "none", n |-> 0]

\* the history variable law after the handler op has taken the world w to w2: the store
\* before and after the last command recorded, whether recording it found commands to
\* redo, and whether it has since been undone and redone with nothing in between
NextLaw(op, w, w2) ==
  IF w2.cmds > w.cmds
    THEN [phase |-> "recorded", S |-> StoreVal(w), S1 |-> StoreVal(w2),
          cleared |-> w.redo_stack # <<>>]
  ELSE IF op = "undo" /\ law.phase = "recorded" THEN [law EXCEPT !.phase = "undone"]
  ELSE IF op = "redo" /\ law.phase = "undone" THEN [law EXCEPT !.phase = "redone"]
  ELSE NoLaw

\* the steps that call undo_manager.clear(): _load_files_action and
\* _save_changes_action, whatever becomes of the file, and a direct call
ClearingOps == {"load", "load_failed", "save", "save_cancelled", "save_failed", "clear"}

\* the handler op has taken the world w to result
Step(op, w, result) ==
  \E w2 \in {result} :
  /\ w2.cmds <= MaxCmds
  /\ Len(w2.lists[w2.segments]) <= MaxSegs
  /\ \A i \in 1..Len(w2.dicts) : Len(w2.dicts[i].text) <= MaxText
  /\ \E c \in {Canon(w2)} :
     /\ dicts' = c.dicts
     /\ lists' = c.lists
     /\ maps' = c.maps
     /\ segments' = c.segments
     /\ speaker_map' = c.speaker_map
     /\ unique_speaker_labels' = c.unique_speaker_labels
     /\ next_id' = c.next_id
     /\ undo_stack' = c.undo_stack
     /\ redo_stack' = c.redo_stack
     /\ selected_segment_id' = c.selected_segment_id
     /\ multi_selection_ids' = c.multi_selection_ids
     /\ editing_segment_id' = c.editing_segment_id
     /\ timestamp_editing_segment_id' = c.timestamp_editing_segment_id
     /\ original_text_before_edit' = c.original_text_before_edit
     /\ undo_enabled' = c.undo_enabled
     /\ redo_enabled' = c.redo_enabled
     /\ signals' = c.signals
     /\ cmds' = c.cmds
     /\ last_op' = op
     /\ loads' = IF op \in {"load", "load_failed", "parse"} THEN loads + 1 ELSE loads
     /\ law' = NextLaw(op, w, w2)
     /\ call' = NoCall
     /\ base' = IF op \in ClearingOps THEN StoreVal(c) ELSE base

(***************************************************************************)
(* What the user can enter.                                                *)
(***************************************************************************)
Line1 == <<"[","0","0",":","0","1",".","0","0","0","]"," ","A",":"," ","a">>

Line2 == <<"[","0","0",":","0","2",".","5","0","0"," ","-"," ",
           "0","0",":","0","3",".","0","0","0","]"," ","B",":"," ","b">>

\* the transcription files that can be loaded, as readlines() gives them
Files == {<<Line2>>}

\* the speakers the combo box of a dialog offers
ComboSpeakers(w) == {NO_SPEAKER_LABEL} \cup w.unique_speaker_labels

\* the text of the block of the segment dict seg while it is edited: enter_edit_mode
\* has removed the placeholder from the line render_segments_to_textarea wrote
EditedBlockText(seg, mp) ==
  RenderedLine([seg EXCEPT !.text = IF @ = EMPTY_SEGMENT_PLACEHOLDER THEN <<>> ELSE @], mp)

\* the text of the edited block when the user leaves it without retyping it
UneditedLines(w) ==
  {EditedBlockText(w.dicts[a], SpeakerMap(w)) :
     a \in {get_segment_by_id(w, w.editing_segment_id)} \ {0}}

\* the text of the edited block when the user leaves it: as it was, retyped, or emptied
EditedLines(w) == {<<"c">>, <<>>} \cup UneditedLines(w)

\* the positions (ms) the user can drag the start bar to
BarPositions == {2500}

\* where the cursor is in the text of the block that is split
SplitPositions == {1}

\* what the user chooses in the add dialog: speaker, time stamps, position.  The first
\* is the dialog accepted as it opens; the others choose no time stamps, or a known
\* speaker with start and end times above.
AddChoices(w) ==
  {<<NO_SPEAKER_LABEL, "start_only", "below">>, <<NO_SPEAKER_LABEL, "none", "below">>}
    \cup {<<s, "start_end", "above">> : s \in w.unique_speaker_labels}

\* what the user chooses in the split dialog: speaker and time stamps
SplitChoices(w) ==
  {<<NO_SPEAKER_LABEL, "none">>}
    \cup {<<s, "start_end">> : s \in w.unique_speaker_labels}

\* what the user types in the speaker assignment dialog: the label whose name is
\* edited and its new name, or the id and name of the "Add New" rows
AssignChoices(w) ==
  {<<l, n, <<>>, <<>> >> : l \in w.unique_speaker_labels, n \in {<<>>, <<"N">>}}
    \cup {<< <<>>, <<>>, <<"c">>, n>> : n \in {<<>>, <<"N">>}}

\* a click on the first block and a shift-click on block hi
RangeSelected(w, hi) ==
  Let(on_segment_clicked(w, 0, FALSE, <<>>), LAMBDA w1 : on_segment_clicked(w1, hi, TRUE, <<>>))

\* The clicks that precede a button.  Outside the edit modes a click on a block only
\* moves the selection (on_segment_clicked); the worlds below are those the user can
\* bring about by clicking before pressing a button: no click, a click on one block,
\* or a click on the first block and a shift-click on a later one.
Selections(w) ==
  {w} \cup {on_segment_clicked(w, b, FALSE, <<>>) : b \in 0..(Len(w.lists[w.segments]) - 1)}
      \cup {RangeSelected(w, hi) : hi \in 1..(Len(w.lists[w.segments]) - 1)}

\* a click on block b and then on the edit button
EditClicked(w, b) ==
  Let(on_segment_clicked(w, b, FALSE, <<>>), LAMBDA w1 : on_edit_button_clicked(w1, <<>>))

\* the worlds in which the user has clicked a block and then the edit button: the
\* block is being edited
Editing(w) ==
  {e \in {EditClicked(w, b) : b \in 0..(Len(w.lists[w.segments]) - 1)} :
     e.editing_segment_id # 0}

\* a click on block b and then on the time stamp button
TimestampClicked(w, b) ==
  Let(on_segment_clicked(w, b, FALSE, <<>>), LAMBDA w1 : on_timestamp_edit_button_clicked(w1))

\* the worlds in which the user has clicked a block and then the time stamp button:
\* the start time of the block is being edited
TimestampEditing(w) ==
  {e \in {TimestampClicked(w, b) : b \in 0..(Len(w.lists[w.segments]) - 1)} :
     e.timestamp_editing_segment_id # 0}

(***************************************************************************)
(* Initial state: CorrectionViewLogic.__init__ has built an empty          *)
(* SegmentManager and an empty UndoManager and disabled the two buttons.   *)
(***************************************************************************)
Init ==
  /\ dicts = <<>>
  /\ lists = << <<>> >>
  /\ maps = << <<>> >>
  /\ segments = 1
  /\ speaker_map = 1
  /\ unique_speaker_labels = {}
  /\ next_id = 1
  /\ undo_stack = <<>>
  /\ redo_stack = <<>>
  /\ selected_segment_id = 0
  /\ multi_selection_ids = <<>>
  /\ editing_segment_id = 0
  /\ timestamp_editing_segment_id = 0
  /\ original_text_before_edit = None
  /\ undo_enabled = FALSE
  /\ redo_enabled = FALSE
  /\ signals = <<>>
  /\ cmds = 0
  /\ last_op = "init"
  /\ law = NoLaw
  /\ loads = 0
  /\ call = NoCall
  /\ base = [segments |-> <<>>, speaker_map |-> <<>>]

(***************************************************************************)
(* Actions: one per button, run after the clicks that set its selection.   *)
(* The two edit modes last from the click that enters them to the button   *)
(* that leaves them: the user enters a mode, types or drags, and presses   *)
(* the button, so a state of the model is a state between two such         *)
(* sessions.  A button that update_edit_buttons_state disables is not      *)
(* clicked.                                                                *)
(***************************************************************************)
LoadFiles ==
  /\ loads < MaxLoads
  /\ \E w0 \in {World}, lines \in Files, read_ok \in BOOLEAN :
       Step(IF read_ok THEN "load" ELSE "load_failed", w0,
            load_files_action(w0, lines, read_ok))

\* the delete button: on the selection, on the block being edited (its text is
\* cleared) or on the time stamp being edited (it is removed)
DeleteClicked ==
  \E w0 \in {World} :
    \E w \in Selections(w0) \cup Editing(w0) \cup TimestampEditing(w0) :
      /\ \/ w.editing_segment_id # 0
         \/ w.timestamp_editing_segment_id # 0
         \/ w.selected_segment_id # 0
         \/ w.multi_selection_ids # <<>>
      /\ Step("handler", w0, on_delete_segment_clicked(w, TRUE))

\* the add/split button while a block is being edited: split
SplitClicked ==
  \E w0 \in {World} :
    \E e \in Editing(w0) :
      \E choice \in SplitChoices(e), line_text \in EditedLines(e),
         split_pos \in SplitPositions :
        Step("handler", w0, on_add_split_button_clicked(e, TRUE, choice[1], choice[2], "below",
                                                        line_text, split_pos))

\* the add/split button on a selected block: add
AddClicked ==
  \E w0 \in {World} :
    \E w \in Selections(w0), choice \in AddChoices(w0) :
      /\ w.selected_segment_id # 0
      /\ Step("handler", w0, on_add_split_button_clicked(w, TRUE, choice[1], choice[2],
                                                         choice[3], <<>>, 0))

MergeClicked ==
  \E w0 \in {World} :
    \E w \in Selections(w0) :
      /\ \/ Len(w.multi_selection_ids) > 1
         \/ w.selected_segment_id # 0 /\ get_segment_index(w, w.selected_segment_id) > 0
      /\ Step("handler", w0, on_merge_button_clicked(w))

EditSpeakerClicked ==
  \E w0 \in {World} :
    \E w \in Selections(w0), speaker_to_set \in ComboSpeakers(w0) :
      /\ w.selected_segment_id # 0 \/ w.multi_selection_ids # <<>>
      /\ Step("handler", w0, on_edit_speaker_clicked(w, TRUE, speaker_to_set, <<>>))

\* the edit button while a block is being edited: commit
EditButtonClicked ==
  \E w0 \in {World} :
    \E e \in Editing(w0) :
      \E line_text \in EditedLines(e) :
        Step("handler", w0, on_edit_button_clicked(e, line_text))

\* a click on another block while a block is being edited
ClickWhileEditing ==
  \E w0 \in {World} :
    \E e \in Editing(w0) :
      \E block_number \in 0..(Len(e.lists[e.segments]) - 1), line_text \in EditedLines(e) :
        /\ block_number # get_segment_index(e, e.editing_segment_id)
        /\ Step("handler", w0, on_segment_clicked(e, block_number, FALSE, line_text))

\* the save button of the time stamp being edited
SaveTimestampClicked ==
  \E w0 \in {World} :
    \E e \in TimestampEditing(w0), start_bar_pos_secs \in BarPositions :
      Step("save_timestamp", w0, on_save_timestamp_clicked(e, start_bar_pos_secs))

\* the text of the edited block when the user has retyped it
RetypedLines == {<<"c">>}

\* Escape while a block is being edited (edit_cancelled): the edit is abandoned
EditAbandoned ==
  \E w0 \in {World} :
    \E e \in Editing(w0) :
      Step("abandoned", w0, exit_edit_mode(e, FALSE, <<>>))

\* the add/split button while a block is being edited, the dialog cancelled; the user
\* then leaves the edit mode, with Escape or with the edit button
SplitCancelled ==
  \E w0 \in {World} :
    \E e \in Editing(w0) :
      \E line_text \in RetypedLines, split_pos \in SplitPositions, save \in BOOLEAN :
        \E wc \in {on_add_split_button_clicked(e, FALSE, NO_SPEAKER_LABEL, "none", "below",
                                                line_text, split_pos)} :
          Step("cancelled", w0, exit_edit_mode(wc, save, line_text))

\* the add/split button on a selected block, the dialog cancelled
AddCancelled ==
  \E w0 \in {World} :
    \E w \in Selections(w0) :
      /\ w.selected_segment_id # 0
      /\ Step("cancelled", w0, on_add_split_button_clicked(w, FALSE, NO_SPEAKER_LABEL, "none",
                                                           "below", <<>>, 0))

\* the delete button on the selection, the question answered with No
DeleteCancelled ==
  \E w0 \in {World} :
    \E w \in Selections(w0) :
      /\ w.selected_segment_id # 0 \/ w.multi_selection_ids # <<>>
      /\ Step("declined", w0, on_delete_segment_clicked(w, FALSE))

SaveChanges ==
  /\ lists[segments] # <<>>
  /\ \E w0 \in {World}, path \in BOOLEAN, write_ok \in BOOLEAN :
       Step(IF ~path THEN "save_cancelled" ELSE IF write_ok THEN "save" ELSE "save_failed",
            w0, save_changes_action(w0, path, write_ok))

SpeakerAssignment ==
  /\ lists[segments] # <<>>
  /\ \E w0 \in {World} :
       \E choice \in AssignChoices(w0) :
         Step("handler", w0, speaker_assignment_accepted(w0, choice[1], choice[2],
                                                         choice[3], choice[4]))

\* the Undo button, which _update_undo_redo_buttons_state enables, runs UndoManager.undo
Undo ==
  /\ undo_enabled
  /\ \E w0 \in {World} : Step("undo", w0, undo_manager_undo(w0))

\* the Redo button runs UndoManager.redo
Redo ==
  /\ redo_enabled
  /\ \E w0 \in {World} : Step("redo", w0, undo_manager_redo(w0))

Next ==
  \/ LoadFiles
  \/ DeleteClicked
  \/ SplitClicked
  \/ AddClicked
  \/ MergeClicked
  \/ EditSpeakerClicked
  \/ EditButtonClicked
  \/ ClickWhileEditing
  \/ SaveTimestampClicked
  \/ SaveChanges
  \/ SpeakerAssignment
  \/ Undo
  \/ Redo

Spec == Init /\ [][Next]_vars

(***************************************************************************)
(* The view with the dialogs that can be cancelled and the edits that can  *)
(* be abandoned: a transcript is loaded, blocks are edited and the edits   *)
(* committed or abandoned, the split, add and delete dialogs are opened    *)
(* and cancelled, the transcript is saved, edits are undone and redone.    *)
(***************************************************************************)
NextCancel ==
  \/ LoadFiles
  \/ EditButtonClicked
  \/ SaveChanges
  \/ EditAbandoned
  \/ SplitCancelled
  \/ AddCancelled
  \/ DeleteCancelled
  \/ Undo
  \/ Redo

SpecCancel == Init /\ [][NextCancel]_vars

(***************************************************************************)
(* The same objects driven through their methods, as a caller other than   *)
(* the view may drive them: SegmentManager's methods with the arguments    *)
(* their signatures admit, each edit recorded the way _execute_command     *)
(* records it, and UndoManager.undo and redo called whatever the stacks    *)
(* hold.                                                                   *)
(***************************************************************************)
\* the files parse_transcription_lines is given
ApiFiles == {<<Line2>>, <<Line1, Line2>>}

\* the segment_data add_segment is given: no field, an empty text, or a text
ApiSegmentData(kind) ==
  IF kind = "empty_text" THEN [text |-> <<>>]
  ELSE IF kind = "text" THEN [text |-> <<"c">>]
  ELSE <<>>

\* the new_segment_properties split_segment is given: what the dialog returns, or
\* properties that name a text
ApiSplitProperties(kind) ==
  IF kind = "empty_text" THEN [text |-> <<>>]
  ELSE [speaker_raw |-> NO_SPEAKER_LABEL, has_timestamps |-> FALSE,
        has_explicit_end_time |-> FALSE]

\* the lines update_segment_from_full_line is given
ApiLines == {<<>>, <<"c">>, <<" ">>}

\* the ids of the segments of the store
StoreIds(w) == {w.dicts[w.lists[w.segments][i]].id : i \in 1..Len(w.lists[w.segments])}

\* the edit that took wb, the world w0 with the two before copies taken, to w1 is
\* recorded as _execute_command records it
ApiStep(w0, wb, w1) ==
  Step("handler", w0, execute_command(w1, Len(wb.lists), Len(wb.maps)))

ApiParse ==
  /\ loads < MaxLoads
  /\ \E w0 \in {World}, lines \in ApiFiles :
       Step("parse", w0, parse_transcription_lines(w0, lines))

ApiAdd ==
  \E w0 \in {World} :
    \E wb \in {TakeBefore(w0)}, kind \in {"none", "empty_text", "text"},
       reference_segment_id \in StoreIds(w0) \cup {0}, position \in {"above", "below"} :
      \E w1 \in {add_segment(wb, ApiSegmentData(kind), reference_segment_id, position)} :
        ApiStep(w0, wb, w1)

ApiSplit ==
  \E w0 \in {World} :
    \E wb \in {TakeBefore(w0)}, kind \in {"dialog", "empty_text"},
       original_segment_id \in StoreIds(w0), text_split_index \in {0, 1} :
      \E w1 \in {split_segment(wb, original_segment_id, text_split_index,
                               ApiSplitProperties(kind))} :
        ApiStep(w0, wb, w1)

ApiRemove ==
  \E w0 \in {World} :
    \E wb \in {TakeBefore(w0)}, segment_id \in StoreIds(w0) :
      \E w1 \in {remove_segment(wb, segment_id)} : ApiStep(w0, wb, w1)

ApiMergeUpwards ==
  \E w0 \in {World} :
    \E wb \in {TakeBefore(w0)}, segment_id \in StoreIds(w0) :
      /\ get_segment_index(w0, segment_id) > 0
      /\ \E w1 \in {merge_segment_upwards(wb, segment_id)} : ApiStep(w0, wb, w1)

ApiMergeMultiple ==
  \E w0 \in {World} :
    \E wb \in {TakeBefore(w0)}, a \in StoreIds(w0), b \in StoreIds(w0) :
      /\ a # b
      /\ \E w1 \in {merge_multiple_segments(wb, <<a, b>>)} : ApiStep(w0, wb, w1)

ApiClearText ==
  \E w0 \in {World} :
    \E wb \in {TakeBefore(w0)}, segment_id \in StoreIds(w0) :
      \E w1 \in {clear_segment_text(wb, segment_id)} : ApiStep(w0, wb, w1)

ApiUpdateFromFullLine ==
  \E w0 \in {World} :
    \E wb \in {TakeBefore(w0)}, segment_id \in StoreIds(w0), full_line_text \in ApiLines :
      \E w1 \in {update_segment_from_full_line(wb, segment_id, full_line_text)} :
        ApiStep(w0, wb, w1)

\* UndoManager.undo, whatever the undo stack holds
\* UndoManager.clear, called whatever the stacks hold
ApiClear == \E w0 \in {World} : Step("clear", w0, undo_manager_clear(w0))

ApiUndo == \E w0 \in {World} : Step("undo", w0, undo_manager_undo(w0))

\* UndoManager.redo, whatever the redo stack holds
ApiRedo == \E w0 \in {World} : Step("redo", w0, undo_manager_redo(w0))

NextApi ==
  \/ ApiParse
  \/ ApiAdd
  \/ ApiSplit
  \/ ApiRemove
  \/ ApiMergeUpwards
  \/ ApiMergeMultiple
  \/ ApiClearText
  \/ ApiUpdateFromFullLine
  \/ ApiClear
  \/ ApiUndo
  \/ ApiRedo

SpecApi == Init /\ [][NextApi]_vars

(***************************************************************************)
(* The SegmentManager alone: its methods called one after the other with   *)
(* the arguments their signatures admit, known ids and unknown ones, and   *)
(* nothing recorded for undo.  The history variable call keeps the method, *)
(* its arguments, the world it was called in and what it returned, and,    *)
(* where the lines of a store just parsed are written, the lines parsed.   *)
(***************************************************************************)
\* calls of one behaviour
MaxCalls == 4

StoreLine1 == <<"[","0","0",":","0","1",".","0","0","1","]"," ","A",":"," ","x">>

StoreLine3 == <<"A",":">>

StoreLine4 == <<"w">>

\* the files parse_transcription_lines is given: lines of the persisted grammar and a
\* blank line
StoreFiles ==
  {<<StoreLine1>>, <<Line2, StoreLine4>>, <<StoreLine4, Line2>>,
   <<StoreLine3, Line2, <<>>, StoreLine4>>}

\* the ids a method is given: those of the store and one that is in no store
IdArgs(w) == StoreIds(w) \cup {w.next_id}

\* the speakers update_segment_speaker is given
SpeakerArgs == {<<"B">>, NO_SPEAKER_LABEL}

\* the start and end strings update_segment_timestamps is given
TimestampArgs ==
  {<< <<>>, <<>> >>,
   << <<"1","0","0",":","0","0",".","0","0","0">>, <<>> >>,
   << <<"0","0",":","0","2",".","0","0","0">>, <<"0","0",":","0","3",".","0","0","0">> >>,
   << <<>>, <<"0","0",":","0","3",".","0","0","0">> >>,
   << <<"0","0",":","0","2">>, <<"0","0",":","0","3",".","0","0","0">> >>,
   << <<"0","0",":","0","2",".","0","0","0">>, <<"3">> >>}

\* the id lists merge_multiple_segments is given
MergeArgs(w) ==
  {<<>>} \cup {<<a>> : a \in IdArgs(w)} \cup {<<a, b>> : a \in IdArgs(w), b \in IdArgs(w)}
    \cup {t \in StoreIds(w) \X StoreIds(w) \X StoreIds(w) :
            t[1] # t[2] /\ t[1] # t[3] /\ t[2] # t[3]}

\* the method op, called with args in the world w0, has left the world w1 and
\* returned ret
StoreStep(op, args, w0, w1, ret) ==
  /\ call.n < MaxCalls
  /\ Len(w1.lists[w1.segments]) <= MaxSegs
  /\ \A i \in 1..Len(w1.dicts) : Len(w1.dicts[i].text) <= MaxText
  /\ \E c \in {Canon(w1)} :
     /\ dicts' = c.dicts
     /\ lists' = c.lists
     /\ maps' = c.maps
     /\ segments' = c.segments
     /\ speaker_map' = c.speaker_map
     /\ unique_speaker_labels' = c.unique_speaker_labels
     /\ next_id' = c.next_id
     /\ undo_stack' = c.undo_stack
     /\ redo_stack' = c.redo_stack
     /\ selected_segment_id' = c.selected_segment_id
     /\ multi_selection_ids' = c.multi_selection_ids
     /\ editing_segment_id' = c.editing_segment_id
     /\ timestamp_editing_segment_id' = c.timestamp_editing_segment_id
     /\ original_text_before_edit' = c.original_text_before_edit
     /\ undo_enabled' = c.undo_enabled
     /\ redo_enabled' = c.redo_enabled
     /\ signals' = c.signals
     /\ cmds' = c.cmds
     /\ last_op' = "call"
     /\ loads' = IF op = "parse_transcription_lines" THEN loads + 1 ELSE loads
     /\ law' = NoLaw
     /\ call' = [op |-> op, args |-> args, before |-> w0, ret |-> ret, n |-> call.n + 1,
                  parsed |-> IF op = "format_segments_for_saving"
                                  /\ call.op = "parse_transcription_lines"
                               THEN call.args ELSE <<>>]
     /\ base' = base

StoreParse ==
  /\ loads < MaxLoads
  /\ \E w0 \in {World}, text_lines \in StoreFiles :
       StoreStep("parse_transcription_lines", <<text_lines>>, w0,
                 parse_transcription_lines(w0, text_lines), TRUE)

StoreUpdateSpeaker ==
  \E w0 \in {World} :
    \E segment_id \in IdArgs(w0), new_speaker_raw \in SpeakerArgs :
      StoreStep("update_segment_speaker", <<segment_id, new_speaker_raw>>, w0,
                update_segment_speaker(w0, segment_id, new_speaker_raw), None)

StoreUpdateTimestamps ==
  \E w0 \in {World} :
    \E segment_id \in IdArgs(w0), t \in TimestampArgs :
      StoreStep("update_segment_timestamps", <<segment_id, t[1], t[2]>>, w0,
                update_segment_timestamps(w0, segment_id, t[1], t[2]),
                get_segment_by_id(w0, segment_id) # 0)

StoreRemoveTimestamp ==
  \E w0 \in {World} :
    \E segment_id \in IdArgs(w0) :
      StoreStep("remove_segment_timestamp", <<segment_id>>, w0,
                remove_segment_timestamp(w0, segment_id),
                get_segment_by_id(w0, segment_id) # 0)

StoreClearText ==
  \E w0 \in {World} :
    \E segment_id \in IdArgs(w0) :
      StoreStep("clear_segment_text", <<segment_id>>, w0,
                clear_segment_text(w0, segment_id), get_segment_by_id(w0, segment_id) # 0)

StoreAdd ==
  \E w0 \in {World} :
    \E kind \in {"none", "text"}, reference_segment_id \in IdArgs(w0) \cup {0},
       position \in {"above", "below"} :
      StoreStep("add_segment", <<kind, reference_segment_id, position>>, w0,
                add_segment(w0, ApiSegmentData(kind), reference_segment_id, position),
                NewSegmentId(w0))

\* the new_segment_properties split_segment is given: what the dialog returns
SplitArgs == {SplitDialogResult(NO_SPEAKER_LABEL, "none"), SplitDialogResult(<<"B">>, "start")}

StoreSplit ==
  \E w0 \in {World} :
    \E original_segment_id \in IdArgs(w0), text_split_index \in {0, 1, 2},
       new_segment_properties \in SplitArgs :
      StoreStep("split_segment",
                <<original_segment_id, text_split_index, new_segment_properties>>, w0,
                split_segment(w0, original_segment_id, text_split_index,
                              new_segment_properties),
                get_segment_by_id(w0, original_segment_id) # 0)

StoreRemove ==
  \E w0 \in {World} :
    \E segment_id \in IdArgs(w0) :
      StoreStep("remove_segment", <<segment_id>>, w0, remove_segment(w0, segment_id),
                get_segment_by_id(w0, segment_id) # 0)

StoreMergeUpwards ==
  \E w0 \in {World} :
    \E segment_id \in IdArgs(w0) :
      StoreStep("merge_segment_upwards", <<segment_id>>, w0,
                merge_segment_upwards(w0, segment_id),
                merge_segment_upwards_result(w0, segment_id))

StoreMergeMultiple ==
  \E w0 \in {World} :
    \E segment_ids \in MergeArgs(w0) :
      StoreStep("merge_multiple_segments", <<segment_ids>>, w0,
                merge_multiple_segments(w0, segment_ids),
                merge_multiple_result(w0, segment_ids))

\* the lines update_segment_from_full_line is given for the segment: the line
\* render_segments_to_textarea has written for it, or a line typed in its place
FullLineArgs(w, segment_id) ==
  {<<"c">>} \cup {RenderedLine(w.dicts[a], SpeakerMap(w)) :
                    a \in {get_segment_by_id(w, segment_id)} \ {0}}

StoreUpdateFromFullLine ==
  \E w0 \in {World} :
    \E segment_id \in IdArgs(w0) :
      \E full_line_text \in FullLineArgs(w0, segment_id) :
        StoreStep("update_segment_from_full_line", <<segment_id, full_line_text>>, w0,
                  update_segment_from_full_line(w0, segment_id, full_line_text), None)

\* format_segments_for_saving, with the flags a caller may pass (save_changes_action
\* passes True, True)
StoreFormatForSaving ==
  \E w0 \in {World}, include_timestamps \in BOOLEAN, include_end_times \in BOOLEAN :
    StoreStep("format_segments_for_saving", <<include_timestamps, include_end_times>>, w0, w0,
              format_segments_for_saving(w0, include_timestamps, include_end_times))

\* the lines the last call wrote are read back: parse_transcription_lines on what
\* format_segments_for_saving(True, True) returned
StoreReload ==
  /\ call.op = "format_segments_for_saving"
  /\ call.args = <<TRUE, TRUE>>
  /\ \E w0 \in {World} :
       StoreStep("reload", <<call.ret>>, w0, parse_transcription_lines(w0, call.ret), TRUE)

\* self.segment_manager.speaker_map[label] = name, as the speaker assignment dialog
\* writes it: a label of the store without a name is given one
StoreNameSpeaker ==
  \E w0 \in {World} :
    \E label \in w0.unique_speaker_labels \ DOMAIN SpeakerMap(w0) :
      StoreStep("speaker_map", <<label, <<"N">> >>, w0,
                [w0 EXCEPT !.maps[w0.speaker_map] = MapSet(@, label, <<"N">>)], None)

NextStore ==
  \/ StoreNameSpeaker
  \/ StoreParse
  \/ StoreUpdateSpeaker
  \/ StoreUpdateTimestamps
  \/ StoreRemoveTimestamp
  \/ StoreClearText
  \/ StoreAdd
  \/ StoreSplit
  \/ StoreRemove
  \/ StoreMergeUpwards
  \/ StoreMergeMultiple
  \/ StoreUpdateFromFullLine
  \/ StoreFormatForSaving
  \/ StoreReload

SpecStore == Init /\ [][NextStore]_vars

(***************************************************************************)
(* core/audio_processor.py: AudioProcessor.  A transcription segment is    *)
(* [start, end, text], a diarization turn [start, end, speaker], a segment *)
(* dictionary [start_time, end_time, speaker, text]; times are in          *)
(* milliseconds as above.  A diarization annotation is its tracks in the   *)
(* order itertracks yields them and whether itertracks yields them all     *)
(* (readable) or raises on the way; labels() is empty exactly if there are *)
(* no tracks.  A transcription result is None or Some(segments).           *)
(***************************************************************************)
min(a, b) == IF a <= b THEN a ELSE b

max(a, b) == IF a >= b THEN a ELSE b

\* overlap = max(0, min(end_time, d_turn['end']) - max(start_time, d_turn['start']))
Overlap(start_time, end_time, d_turn) ==
  max(0, min(end_time, d_turn.end) - max(start_time, d_turn.start))

RECURSIVE AssignSpeaker_OnEqual(_, _, _, _, _, _)
\* a loop over diar_turns that also takes a turn whose overlap equals the best so far
AssignSpeaker_OnEqual(diar_turns, i, start_time, end_time, best_overlap, assigned_speaker) ==
  IF i > Len(diar_turns) THEN assigned_speaker
  ELSE Let(Overlap(start_time, end_time, diar_turns[i]), LAMBDA overlap :
         IF overlap >= best_overlap
         THEN AssignSpeaker_OnEqual(diar_turns, i + 1, start_time, end_time, overlap,
                                    diar_turns[i].speaker)
         ELSE AssignSpeaker_OnEqual(diar_turns, i + 1, start_time, end_time, best_overlap,
                                    assigned_speaker))

RECURSIVE AssignSpeaker(_, _, _, _, _, _)
\* "for d_turn in diar_turns" of _align_outputs from the turn i on, with best_overlap
\* and assigned_speaker as the turns before have left them
AssignSpeaker(diar_turns, i, start_time, end_time, best_overlap, assigned_speaker) ==
  IF i > Len(diar_turns) THEN assigned_speaker
  ELSE Let(Overlap(start_time, end_time, diar_turns[i]), LAMBDA overlap :
         IF overlap > best_overlap
         THEN AssignSpeaker(diar_turns, i + 1, start_time, end_time, overlap,
                            diar_turns[i].speaker)
         ELSE AssignSpeaker(diar_turns, i + 1, start_time, end_time, best_overlap,
                            assigned_speaker))

\* diar_turns of _align_outputs before its loop over the transcription segments
DiarTurns(diarization_annotation, diarization_actually_performed) ==
  IF /\ diarization_actually_performed
     /\ diarization_annotation # None
     /\ diarization_annotation[1].tracks # <<>>
     /\ diarization_annotation[1].readable
  THEN diarization_annotation[1].tracks
  ELSE <<>>

\* the dictionary _align_outputs appends for t_seg
AlignedSegment(t_seg, diar_turns, diarization_actually_performed) ==
  [start_time |-> t_seg.start,
   end_time |-> t_seg.end,
   speaker |-> IF diarization_actually_performed /\ diar_turns # <<>>
               THEN AssignSpeaker(diar_turns, 1, t_seg.start, t_seg.end, 0, NO_SPEAKER_LABEL)
               ELSE NO_SPEAKER_LABEL,
   text |-> Strip(t_seg.text)]

\* AudioProcessor._align_outputs
align_outputs(diarization_annotation, transcription_result_dict, diarization_actually_performed) ==
  IF transcription_result_dict = None \/ transcription_result_dict[1] = <<>>
  THEN <<[start_time |-> 0, end_time |-> 0, speaker |-> <<"E","R","R","O","R">>,
          text |-> <<"T","r","a","n","s","c","r","i","p","t","i","o","n"," ","d","a",
                     "t","a"," ","u","n","a","v","a","i","l","a","b","l","e">>]>>
  ELSE Let2(transcription_result_dict[1],
            DiarTurns(diarization_annotation, diarization_actually_performed),
            LAMBDA transcription_segments, diar_turns :
              [i \in 1..Len(transcription_segments) |->
                 AlignedSegment(transcription_segments[i], diar_turns,
                                diarization_actually_performed)])

\* a can_merge that asks for equal speakers only
CanMerge_AnySpeaker(current_merged_segment, seg_dict) ==
  current_merged_segment.speaker = seg_dict.speaker

\* can_merge of _perform_auto_merge
CanMerge(current_merged_segment, seg_dict) ==
  /\ current_merged_segment.speaker = seg_dict.speaker
  /\ current_merged_segment.speaker \notin {NO_SPEAKER_LABEL}

\* a merge that leaves the accumulator the end time of its first segment
Absorb_KeepEnd(current_merged_segment, seg_dict) ==
  [current_merged_segment EXCEPT !.text = @ \o <<" ">> \o seg_dict.text]

\* the two assignments of _perform_auto_merge where can_merge
Absorb(current_merged_segment, seg_dict) ==
  [current_merged_segment EXCEPT !.text = @ \o <<" ">> \o seg_dict.text,
                                 !.end_time = seg_dict.end_time]

RECURSIVE AutoMergeLoop_Pairs(_, _, _, _)
\* a loop that closes the accumulator once it has absorbed one segment
AutoMergeLoop_Pairs(segment_dicts, i, merged_segments, current_merged_segment) ==
  IF i > Len(segment_dicts) THEN merged_segments \o current_merged_segment
  ELSE IF current_merged_segment = None
  THEN AutoMergeLoop_Pairs(segment_dicts, i + 1, merged_segments, Some(segment_dicts[i]))
  ELSE IF CanMerge(current_merged_segment[1], segment_dicts[i])
  THEN AutoMergeLoop_Pairs(segment_dicts, i + 1,
                           merged_segments
                             \o <<Absorb(current_merged_segment[1], segment_dicts[i])>>,
                           None)
  ELSE AutoMergeLoop_Pairs(segment_dicts, i + 1, merged_segments \o current_merged_segment,
                           Some(segment_dicts[i]))

RECURSIVE AutoMergeLoop(_, _, _, _)
\* "for seg_dict in segment_dicts" of _perform_auto_merge from the segment i on, and
\* the append after it; current_merged_segment is None or Some(dictionary)
AutoMergeLoop(segment_dicts, i, merged_segments, current_merged_segment) ==
  IF i > Len(segment_dicts) THEN merged_segments \o current_merged_segment
  ELSE IF current_merged_segment = None
  THEN AutoMergeLoop(segment_dicts, i + 1, merged_segments, Some(segment_dicts[i]))
  ELSE IF CanMerge(current_merged_segment[1], segment_dicts[i])
  THEN AutoMergeLoop(segment_dicts, i + 1, merged_segments,
                     Some(Absorb(current_merged_segment[1], segment_dicts[i])))
  ELSE AutoMergeLoop(segment_dicts, i + 1, merged_segments \o current_merged_segment,
                     Some(segment_dicts[i]))

\* AudioProcessor._perform_auto_merge
perform_auto_merge(output_enable_auto_merge, segment_dicts) ==
  IF ~output_enable_auto_merge \/ segment_dicts = <<>> THEN segment_dicts
  ELSE AutoMergeLoop(segment_dicts, 1, <<>>, None)

\* AudioProcessor._format_time, for the double S + ms / 1000.0
format_time(seconds) ==
  PadZero(NatStr(seconds \div 60000), 2) \o <<":">>
    \o PadZero(NatStr((seconds \div 1000) % 60), 2) \o <<".">>
    \o PadZero(NatStr(TruncMs(seconds \div 1000, seconds % 1000)), 3)

\* the line _format_segment_dictionaries_to_strings appends for seg_dict
FormattedLine(seg_dict, include_ts_in_format, include_end_ts_in_format, include_speakers_in_format) ==
  JoinNonEmpty(
    << IF ~include_ts_in_format THEN <<>>
       ELSE IF include_end_ts_in_format
       THEN <<"[">> \o format_time(seg_dict.start_time) \o <<" ","-"," ">>
              \o format_time(seg_dict.end_time) \o <<"]">>
       ELSE <<"[">> \o format_time(seg_dict.start_time) \o <<"]">>,
       IF include_speakers_in_format /\ seg_dict.speaker # NO_SPEAKER_LABEL
       THEN seg_dict.speaker \o <<":">> ELSE <<>>,
       seg_dict.text >>)

\* AudioProcessor._format_segment_dictionaries_to_strings, where there are segment
\* dictionaries, as wherever process_audio calls it
format_segment_dictionaries_to_strings(segment_dicts, include_ts_in_format, include_end_ts_in_format, include_speakers_in_format) ==
  [i \in 1..Len(segment_dicts) |->
     FormattedLine(segment_dicts[i], include_ts_in_format, include_end_ts_in_format,
                   include_speakers_in_format)]

\* ProcessedAudioResult, and with it final_segments_to_process where process_audio
\* got as far as that
ProcessedAudioResult(status, data, is_plain_text_output, final_segments) ==
  [status |-> status, data |-> data, is_plain_text_output |-> is_plain_text_output,
   final_segments_to_process |-> final_segments]

\* diarization_will_be_attempted of process_audio
DiarizationWillBeAttempted(self) ==
  self.output_enable_diarization /\ self.diarization_model_loaded

\* process_audio from "Aligning outputs..." on
AlignMergeFormat(self, diarization_result_obj, transcription_output_dict) ==
  Let(align_outputs(diarization_result_obj, transcription_output_dict,
                    DiarizationWillBeAttempted(self)),
      LAMBDA intermediate_segment_dicts :
        Let(IF self.output_enable_auto_merge /\ DiarizationWillBeAttempted(self)
            THEN perform_auto_merge(self.output_enable_auto_merge,
                                    intermediate_segment_dicts)
            ELSE intermediate_segment_dicts,
            LAMBDA final_segments_to_process :
              ProcessedAudioResult("SUCCESS",
                format_segment_dictionaries_to_strings(
                  final_segments_to_process, self.output_include_timestamps,
                  self.output_include_end_times, DiarizationWillBeAttempted(self)),
                FALSE, final_segments_to_process)))

\* AudioProcessor.process_audio: self holds the four output settings and whether there
\* is a diarization handler with its model loaded; diarize and transcribe are what
\* the two handlers do when called, raise or return a value
process_audio(self, transcription_model_loaded, diarize, transcribe) ==
  IF ~transcription_model_loaded THEN ProcessedAudioResult("ERROR", None, FALSE, <<>>)
  ELSE IF DiarizationWillBeAttempted(self) /\ diarize.raised
  THEN ProcessedAudioResult("ERROR", None, FALSE, <<>>)
  ELSE IF transcribe.raised THEN ProcessedAudioResult("ERROR", None, FALSE, <<>>)
  ELSE IF transcribe.value = None \/ transcribe.value[1] = <<>>
  THEN ProcessedAudioResult("EMPTY", None, FALSE, <<>>)
  ELSE IF ~self.output_include_timestamps /\ ~self.output_enable_diarization
  THEN ProcessedAudioResult("SUCCESS",
         JoinNonEmpty([i \in 1..Len(transcribe.value[1]) |->
                         Strip(transcribe.value[1][i].text)]),
         TRUE, <<>>)
  ELSE AlignMergeFormat(self,
         IF DiarizationWillBeAttempted(self) THEN diarize.value ELSE None,
         transcribe.value)

(***************************************************************************)
(* The AudioProcessor alone, in a process that has loaded no transcript:   *)
(* one job, which is process_audio or one of the two steps of it the       *)
(* aligner is made of, called with what the two handlers can return.  The  *)
(* history variable call keeps the method, its arguments and what it       *)
(* returned; n counts the calls of _perform_auto_merge in a row, each on   *)
(* what the one before returned.                                           *)
(***************************************************************************)
\* segments of one transcription, and turns of one diarization
MaxTranscribed == 2

\* segment dictionaries _perform_auto_merge is given
MaxAligned == 3

\* the sequences over S of at most n elements
SeqsUpTo(S, n) == UNION {[1..k -> S] : k \in 0..n}

\* (start, end) of the transcription segments
TranscriptionSpans == {<<0, 2000>>, <<2000, 4000>>, <<1001, 3000>>}

\* transcription segments, with text to trim and text that is blank
TranscriptionSegments ==
  {[start |-> span[1], end |-> span[2], text |-> text] :
     span \in TranscriptionSpans, text \in {<<"a"," ">>, <<"b">>, <<" ">>}}

\* diarization turns: two that overlap the first span equally, one that covers it,
\* and one that does not meet it
DiarizationTurns ==
  {[start |-> span[1], end |-> span[2], speaker |-> speaker] :
     span \in {<<0, 1000>>, <<1000, 2000>>, <<0, 2000>>, <<3000, 5000>>},
     speaker \in {<<"A">>, <<"B">>}}

\* what transcribe returns: nothing, or a dictionary with its segments
TranscriptionResults ==
  {None} \cup {Some(segs) : segs \in SeqsUpTo(TranscriptionSegments, MaxTranscribed)}

\* what diarize returns: nothing, or an annotation
DiarizationResults ==
  {None} \cup {Some([tracks |-> tracks, readable |-> readable]) :
                 tracks \in SeqsUpTo(DiarizationTurns, MaxTranscribed),
                 readable \in BOOLEAN}

\* the segment dictionaries of an alignment
SegmentDicts ==
  {[start_time |-> span[1], end_time |-> span[2], speaker |-> speaker, text |-> text] :
     span \in {<<0, 2000>>, <<2000, 4000>>},
     speaker \in {<<"A">>, <<"B">>, NO_SPEAKER_LABEL},
     text \in {<<"a">>, <<"b">>, <<>>}}

\* the processors process_audio is called on
Processors ==
  [output_include_timestamps : BOOLEAN, output_include_end_times : BOOLEAN,
   output_enable_diarization : BOOLEAN, output_enable_auto_merge : BOOLEAN,
   diarization_model_loaded : BOOLEAN]

\* the transcriptions and diarizations of process_audio: of the sets above, those of
\* the first two spans and of the turns of speaker A, and B on the covering turn
ProcessTranscriptions ==
  {None} \cup
  {Some(segs) : segs \in SeqsUpTo({t \in TranscriptionSegments :
                                     t.start # 1001 /\ t.text # <<"b">>}, MaxTranscribed)}

ProcessDiarizations ==
  {None} \cup
  {Some([tracks |-> tracks, readable |-> readable]) :
     tracks \in SeqsUpTo({d \in DiarizationTurns :
                            d.speaker = <<"A">> \/ d.start = 3000}, 1)
                  \cup {<< [start |-> 0, end |-> 2000, speaker |-> <<"A">>],
                           [start |-> 3000, end |-> 5000, speaker |-> <<"A">>] >>},
     readable \in BOOLEAN}

\* a call of the processor has returned: nothing else changes
PipeStep(op, args, ret, n) ==
  /\ call' = [op |-> op, args |-> args, ret |-> ret, n |-> n]
  /\ UNCHANGED <<dicts, lists, maps, segments, speaker_map, unique_speaker_labels,
                 next_id, undo_stack, redo_stack, selected_segment_id,
                 multi_selection_ids, editing_segment_id, timestamp_editing_segment_id,
                 original_text_before_edit, undo_enabled, redo_enabled, signals, cmds,
                 last_op, law, loads, base>>

PipeAlignOutputs ==
  /\ call.op = "none"
  /\ \E diarization_annotation \in DiarizationResults,
        transcription_result_dict \in TranscriptionResults,
        diarization_actually_performed \in BOOLEAN :
       PipeStep("_align_outputs",
                [diarization_annotation |-> diarization_annotation,
                 transcription_result_dict |-> transcription_result_dict,
                 diarization_actually_performed |-> diarization_actually_performed],
                align_outputs(diarization_annotation, transcription_result_dict,
                              diarization_actually_performed),
                1)

PipePerformAutoMerge ==
  /\ call.op = "none"
  /\ \E output_enable_auto_merge \in BOOLEAN,
        segment_dicts \in SeqsUpTo(SegmentDicts, MaxAligned) :
       PipeStep("_perform_auto_merge",
                [output_enable_auto_merge |-> output_enable_auto_merge,
                 segment_dicts |-> segment_dicts],
                perform_auto_merge(output_enable_auto_merge, segment_dicts),
                1)

\* _perform_auto_merge of the same processor on what it has just returned
PipePerformAutoMergeAgain ==
  /\ call.op = "_perform_auto_merge"
  /\ call.n = 1
  /\ PipeStep("_perform_auto_merge",
              [output_enable_auto_merge |-> call.args.output_enable_auto_merge,
               segment_dicts |-> call.ret],
              perform_auto_merge(call.args.output_enable_auto_merge, call.ret),
              2)

PipeProcessAudio ==
  /\ call.op = "none"
  /\ \E self \in Processors, transcription_model_loaded \in BOOLEAN,
        diarize_raised \in BOOLEAN, transcribe_raised \in BOOLEAN,
        diarization \in ProcessDiarizations, transcription \in ProcessTranscriptions :
       /\ ~(diarize_raised /\ diarization # None)
       /\ ~(transcribe_raised /\ transcription # None)
       /\ (~transcription_model_loaded \/ diarize_raised \/ transcribe_raised)
            => (diarization = None /\ transcription = None)
       /\ ~DiarizationWillBeAttempted(self) => (diarization = None /\ ~diarize_raised)
       /\ PipeStep("process_audio",
                   [self |-> self,
                    transcription_model_loaded |-> transcription_model_loaded,
                    diarize |-> [raised |-> diarize_raised, value |-> diarization],
                    transcribe |-> [raised |-> transcribe_raised, value |-> transcription]],
                   process_audio(self, transcription_model_loaded,
                                 [raised |-> diarize_raised, value |-> diarization],
                                 [raised |-> transcribe_raised, value |-> transcription]),
                   1)

NextPipe ==
  \/ PipeAlignOutputs
  \/ PipePerformAutoMerge
  \/ PipePerformAutoMergeAgain
  \/ PipeProcessAudio

SpecPipeline == Init /\ [][NextPipe]_vars

(***************************************************************************)
(* Properties.                                                             *)
(***************************************************************************)
\* the commands of the two stacks
Commands == undo_stack \o redo_stack

\* the live segments, by value
LiveSegs == [i \in 1..Len(lists[segments]) |-> dicts[lists[segments][i]]]

\* C1: snapshot isolation over whole histories.  The four snapshots of every command
\* on the undo or redo stack hold the segments and the speaker map they held when the
\* command was recorded.
C1_SnapshotsIntact ==
  \A i \in 1..Len(Commands) : SnapshotValue(World, Commands[i]) = Commands[i].recorded

\* C2: undo/redo inverse law.  When the command recorded for an edit that took the
\* store from S to S' is undone at once, segments and speaker map equal S; when it is
\* then redone at once, they equal S'.
C2_InverseLaw ==
  /\ law.phase = "undone" => StoreVal(World) = law.S
  /\ law.phase = "redone" => StoreVal(World) = law.S1

\* an edit that changed the store has been recorded, undone and redone
C2_Witness == law.phase = "redone" /\ law.S # law.S1

\* C3: a new edit invalidates the undone future.  Recording a command leaves the redo
\* stack empty, and a redo() called then changes neither the store nor the stacks (nor
\* anything else).
C3_RecordClearsRedo ==
  law.phase = "recorded" => /\ redo_stack = <<>>
                            /\ undo_manager_redo(World) = World

\* a command has been recorded while there were undone commands to redo
C3_Witness == law.phase = "recorded" /\ law.cleared

\* C4 as stated: the redo stack is never non-empty while the undo stack is empty, so
\* that the manager is Idle, HasUndo or HasUndoAndRedo.
C4_ThreeStates == ~(undo_stack = <<>> /\ redo_stack # <<>>)

\* C4 amended: both stacks are empty at start and after a load; recording leaves the
\* undo stack non-empty and the redo stack empty; an undo leaves the redo stack
\* non-empty and a redo leaves the undo stack non-empty; the two stacks never hold more
\* commands than were recorded.  The manager is Idle, HasUndo, HasUndoAndRedo or, when
\* every recorded command has been undone, HasRedo (undo stack empty, redo stack not).
C4_FourStates ==
  /\ last_op \in {"init", "load"} => undo_stack = <<>> /\ redo_stack = <<>>
  /\ law.phase = "recorded" => undo_stack # <<>> /\ redo_stack = <<>>
  /\ last_op = "undo" => redo_stack # <<>>
  /\ last_op = "redo" => undo_stack # <<>>
  /\ Len(undo_stack) + Len(redo_stack) <= cmds

\* every recorded command has been undone: the state C4 leaves out
C4_Witness == last_op = "undo" /\ undo_stack = <<>> /\ redo_stack # <<>>

\* C5: undo() on an empty undo stack and redo() on an empty redo stack are no-ops:
\* segments, speaker map, label set and both stacks are as they were, and no signal
\* (history_changed or other) is emitted.
C5_EmptyStackNoOp ==
  [][(\/ last_op' = "undo" /\ undo_stack = <<>>
      \/ last_op' = "redo" /\ redo_stack = <<>>)
       => /\ UNCHANGED <<dicts, lists, maps, segments, speaker_map,
                         unique_speaker_labels, undo_stack, redo_stack>>
          /\ signals' = <<>>]_vars

\* undo() or redo() has been called on a store of segments with nothing to undo or
\* redo: an undo or a redo that restores leaves a command on the other stack
C5_Witness ==
  /\ last_op \in {"undo", "redo"}
  /\ undo_stack = <<>> /\ redo_stack = <<>>
  /\ lists[segments] # <<>>

\* C6: right after an undo() or a redo() that restores a snapshot, the label set is the
\* keys of the restored speaker map together with the speaker_raw of the restored
\* segments other than NO_SPEAKER.
C6_LabelsRederived ==
  last_op \in {"undo", "redo"} =>
    unique_speaker_labels =
      (DOMAIN maps[speaker_map])
        \cup ({LiveSegs[i].speaker_raw : i \in 1..Len(LiveSegs)} \ {NO_SPEAKER_LABEL})

\* an undo or redo has restored segments with a speaker that has no name in the map
C6_Witness ==
  /\ last_op \in {"undo", "redo"}
  /\ \E i \in 1..Len(LiveSegs) :
       /\ LiveSegs[i].speaker_raw # NO_SPEAKER_LABEL
       /\ LiveSegs[i].speaker_raw \notin DOMAIN maps[speaker_map]

\* C7: between one load and the next the label set only grows: no edit, undo or redo
\* takes a raw speaker id out of it.
C7_LabelsOnlyGrow ==
  [][last_op' # "load" => unique_speaker_labels \subseteq unique_speaker_labels']_vars

\* C8: the ids of the segments in the store are pairwise distinct.
C8_IdsDistinct ==
  \A i, j \in 1..Len(LiveSegs) : i # j => LiveSegs[i].id # LiveSegs[j].id

\* an undo or a redo has restored a store of several segments
C8_Witness == last_op \in {"undo", "redo"} /\ Len(LiveSegs) >= 3

\* C9: no segment of the store has the empty string as its text.
C9_NoEmptyText == \A i \in 1..Len(LiveSegs) : LiveSegs[i].text # <<>>

\* C10: every segment with has_explicit_end_time true has an end_time that is not None.
C10_ExplicitEndHasEndTime ==
  \A i \in 1..Len(LiveSegs) : LiveSegs[i].has_explicit_end_time => LiveSegs[i].end_time # None

\* the ids of the segments of the store of w, in order
IdsIn(w) == [i \in 1..Len(w.lists[w.segments]) |-> w.dicts[w.lists[w.segments][i]].id]

\* the methods of the store that edit a transcript
EditMethods ==
  {"update_segment_speaker", "update_segment_timestamps", "remove_segment_timestamp",
   "clear_segment_text", "add_segment", "split_segment", "remove_segment",
   "merge_segment_upwards", "merge_multiple_segments"}

\* C11: no edit of the store re-sorts it: the segments that are in the store before and
\* after a call of update_segment_speaker, update_segment_timestamps,
\* remove_segment_timestamp, clear_segment_text, add_segment, split_segment,
\* remove_segment, merge_segment_upwards or merge_multiple_segments stand in the same
\* order after it as before, whatever their start times
C11_OrderKept ==
  call.op \in EditMethods =>
    \E before \in {IdsIn(call.before)}, after \in {IdsIn(World)} :
      SelectSeq(before, LAMBDA id : id \in Range(after))
        = SelectSeq(after, LAMBDA id : id \in Range(before))

\* a segment has been given a start time later than that of the segment below it, and
\* has stayed above it
C11_Witness ==
  /\ call.op = "update_segment_timestamps"
  /\ Len(LiveSegs) >= 2
  /\ LiveSegs[1].start_time > LiveSegs[2].start_time
  /\ IdsIn(call.before) = IdsIn(World)
  /\ call.before.dicts[call.before.lists[1][1]].start_time < LiveSegs[1].start_time

\* what a line of the persisted grammar says: its times, its speaker and its text, the
\* placeholder standing for no text
LineMeaning(line) ==
  Let(ParseLine(Strip(line)), LAMBDA f :
    [start_time |-> IF f.has_timestamps THEN Some(f.start_time) ELSE None,
     end_time |-> IF f.has_explicit_end_time THEN f.end_time ELSE None,
     speaker |-> f.speaker_raw,
     text |-> TextOrEmpty(f.text)])

\* C12: the lines format_segments_for_saving(True, True) writes for a store just parsed
\* from lines of the persisted grammar are one per non-blank line parsed, each with the
\* start time, the end time, the speaker and the text of the line it comes from
C12_ParseSaveRoundTrip ==
  (call.op = "format_segments_for_saving" /\ call.args = <<TRUE, TRUE>>
     /\ call.parsed # <<>>) =>
    \E lines \in {SelectSeq(call.parsed[1], LAMBDA l : Strip(l) # <<>>)} :
      /\ Len(call.ret) = Len(lines)
      /\ \A i \in 1..Len(lines) : LineMeaning(call.ret[i]) = LineMeaning(lines[i])

\* what the segments of the store of w say: for each, the start time and the end time
\* it shows, the display name of its speaker and its text
SegmentMeanings(w) ==
  Let2(Segs(w), SpeakerMap(w), LAMBDA segs, mp :
    [i \in 1..Len(segs) |->
       [start_time |-> IF segs[i].has_timestamps THEN Some(segs[i].start_time) ELSE None,
        end_time |-> IF segs[i].has_timestamps /\ segs[i].has_explicit_end_time
                       THEN segs[i].end_time ELSE None,
        speaker |-> MapGet(mp, segs[i].speaker_raw, segs[i].speaker_raw),
        text |-> segs[i].text]])

\* C13: parsing the lines format_segments_for_saving(True, True) has written for a
\* store gives segments with the start times, the end times, the speakers and the texts
\* of that store, in its order
C13_SaveLoadRoundTrip ==
  call.op = "reload" => SegmentMeanings(World) = SegmentMeanings(call.before)

\* C14: update_segment_from_full_line, given the line render_segments_to_textarea
\* has written for a segment, leaves the text of the segment as it was, whatever time
\* stamp, explicit end time and speaker the segment has
C14_RenderCommitRoundTrip ==
  call.op = "update_segment_from_full_line" =>
    \E a \in {get_segment_by_id(call.before, call.args[1])} :
      (a # 0 /\ call.args[2] = RenderedLine(call.before.dicts[a], SpeakerMap(call.before)))
        => \E b \in {get_segment_by_id(World, call.args[1])} :
             dicts[b].text = call.before.dicts[a].text

\* the segment dict with that id in the store of w
SegmentOf(w, segment_id) == w.dicts[get_segment_by_id(w, segment_id)]

\* the ids are those of three segments that follow one another in the store of w
Consecutive(w, ids) ==
  /\ Len(ids) = 3
  /\ get_segment_index(w, ids[1]) >= 0
  /\ get_segment_index(w, ids[2]) = get_segment_index(w, ids[1]) + 1
  /\ get_segment_index(w, ids[3]) = get_segment_index(w, ids[1]) + 2

\* C15: for three consecutive segments A, B, C, merge_multiple_segments([A, B, C])
\* leaves A with the text and the speaker that merge_segment_upwards(C) followed by
\* merge_segment_upwards(B) leaves it with in the same store
C15_MergeAssociative ==
  (call.op = "merge_multiple_segments" /\ Consecutive(call.before, call.args[1])) =>
    \E ids \in {call.args[1]} :
      \E m1 \in {merge_segment_upwards(call.before, ids[3])} :
        \E m2 \in {merge_segment_upwards(m1, ids[2])} :
          /\ SegmentOf(World, ids[1]).text = SegmentOf(m2, ids[1]).text
          /\ SegmentOf(World, ids[1]).speaker_raw = SegmentOf(m2, ids[1]).speaker_raw

\* three segments have been merged of which the middle one had no text and the other
\* two had
C15_Witness ==
  /\ call.op = "merge_multiple_segments"
  /\ Consecutive(call.before, call.args[1])
  /\ SegmentOf(call.before, call.args[1][1]).text # EMPTY_SEGMENT_PLACEHOLDER
  /\ SegmentOf(call.before, call.args[1][2]).text = EMPTY_SEGMENT_PLACEHOLDER
  /\ SegmentOf(call.before, call.args[1][3]).text # EMPTY_SEGMENT_PLACEHOLDER
  /\ Len(LiveSegs) = 1
  /\ LiveSegs[1].text # SegmentOf(call.before, call.args[1][1]).text

\* C16: for a segment A and the segment B below it, merge_multiple_segments([A, B])
\* leaves the store that merge_segment_upwards(B) leaves, end_time and
\* has_explicit_end_time of the surviving segment included
C16_MergeMultipleAsUpwards ==
  (/\ call.op = "merge_multiple_segments"
   /\ Len(call.args[1]) = 2
   /\ get_segment_index(call.before, call.args[1][1]) >= 0
   /\ get_segment_index(call.before, call.args[1][2])
        = get_segment_index(call.before, call.args[1][1]) + 1) =>
    StoreVal(World) = StoreVal(merge_segment_upwards(call.before, call.args[1][2]))

\* the places of the list ids that hold the id of a segment of the store of w
ValidPlaces(w, ids) == {i \in 1..Len(ids) : ids[i] \in StoreIds(w)}

\* C17: merge_multiple_segments returns None and leaves the store as it was when
\* fewer than two of the ids it is given are ids of segments of the store; otherwise it
\* returns the id, among those given, of the segment with the smallest index
C17_MergeMultipleResult ==
  call.op = "merge_multiple_segments" =>
    \E valid \in {ValidPlaces(call.before, call.args[1])} :
      IF Cardinality(valid) < 2
        THEN call.ret = 0 /\ StoreVal(World) = StoreVal(call.before)
        ELSE \E i \in valid :
               /\ call.ret = call.args[1][i]
               /\ \A j \in valid : get_segment_index(call.before, call.args[1][i])
                                     <= get_segment_index(call.before, call.args[1][j])

\* C18: merge_segment_upwards returns False and leaves the segments, the speaker map
\* and the speaker labels as they were when the id is that of the first segment or of no
\* segment; otherwise it returns True and the store holds the segments it held but the
\* one with that id
C18_MergeUpwardsResult ==
  call.op = "merge_segment_upwards" =>
    IF get_segment_index(call.before, call.args[1]) <= 0
      THEN /\ call.ret = FALSE
           /\ StoreVal(World) = StoreVal(call.before)
           /\ unique_speaker_labels = call.before.unique_speaker_labels
      ELSE /\ call.ret = TRUE
           /\ Len(LiveSegs) = Len(IdsIn(call.before)) - 1
           /\ IdsIn(World) = SelectSeq(IdsIn(call.before), LAMBDA id : id # call.args[1])

\* merge_segment_upwards has been called for the first of several segments
C18_Witness ==
  /\ call.op = "merge_segment_upwards"
  /\ Len(LiveSegs) >= 2
  /\ call.args[1] = LiveSegs[1].id
  /\ call.ret = FALSE

\* the segment above the one with that id in the store of w
PreviousOf(w, segment_id) == Segs(w)[get_segment_index(w, segment_id)]

\* C19: after a merge_segment_upwards that has returned True, the segment that was
\* above the one removed has has_explicit_end_time True and the end time of the one
\* removed if that one had an explicit end time (the flag, and an end time), and
\* has_explicit_end_time False otherwise; its id, start_time, has_timestamps and
\* speaker_raw are as before
C19_MergeUpwardsEndTime ==
  (call.op = "merge_segment_upwards" /\ call.ret = TRUE) =>
    \E removed \in {SegmentOf(call.before, call.args[1])},
       previous \in {PreviousOf(call.before, call.args[1])} :
      \E survivor \in {SegmentOf(World, previous.id)} :
        /\ IF removed.has_explicit_end_time /\ removed.end_time # None
             THEN survivor.has_explicit_end_time /\ survivor.end_time = removed.end_time
             ELSE ~survivor.has_explicit_end_time
        /\ survivor.start_time = previous.start_time
        /\ survivor.has_timestamps = previous.has_timestamps
        /\ survivor.speaker_raw = previous.speaker_raw

\* a segment with an explicit end time has been merged into one without
C19_Witness ==
  /\ call.op = "merge_segment_upwards"
  /\ call.ret = TRUE
  /\ SegmentOf(call.before, call.args[1]).has_explicit_end_time
  /\ ~PreviousOf(call.before, call.args[1]).has_explicit_end_time
  /\ SegmentOf(World, PreviousOf(call.before, call.args[1]).id).has_explicit_end_time

\* the join of two texts: the placeholder counts as empty; one space between two sides
\* that are not empty, the side that is not empty alone, the placeholder for two empty
\* sides
Joined(above, below) ==
  IF above \in {<<>>, EMPTY_SEGMENT_PLACEHOLDER}
    THEN (IF below \in {<<>>, EMPTY_SEGMENT_PLACEHOLDER}
            THEN EMPTY_SEGMENT_PLACEHOLDER ELSE below)
  ELSE IF below \in {<<>>, EMPTY_SEGMENT_PLACEHOLDER} THEN above
  ELSE above \o <<" ">> \o below

RECURSIVE JoinedAll(_, _)
\* the texts joined one after the other onto text
JoinedAll(text, texts) ==
  IF texts = <<>> THEN text ELSE JoinedAll(Joined(text, Head(texts)), Tail(texts))

\* the text is the placeholder or holds the placeholder nowhere
NoPlaceholderInside(text) ==
  \/ text = EMPTY_SEGMENT_PLACEHOLDER
  \/ \A i \in 1..Len(text) :
       \/ i + Len(EMPTY_SEGMENT_PLACEHOLDER) - 1 > Len(text)
       \/ SubSeq(text, i, i + Len(EMPTY_SEGMENT_PLACEHOLDER) - 1) # EMPTY_SEGMENT_PLACEHOLDER

\* the texts of the segments of the store of w whose ids are among ids, in store order
GivenTexts(w, ids) ==
  Let(SelectSeq(Segs(w), LAMBDA seg : seg.id \in Range(ids)), LAMBDA given :
    [i \in 1..Len(given) |-> given[i].text])

\* C20: merge_segment_upwards gives the surviving segment the join of its text and the
\* text of the segment removed, and merge_multiple_segments, given ids that differ,
\* the join of the texts of the segments given, one after the other in store order;
\* where no text merged holds the placeholder beside other content, the merged text
\* does not either
C20_MergedTextJoin ==
  /\ (call.op = "merge_segment_upwards" /\ call.ret = TRUE) =>
       \E texts \in {<<PreviousOf(call.before, call.args[1]).text,
                       SegmentOf(call.before, call.args[1]).text>>} :
         \E merged \in {SegmentOf(World, PreviousOf(call.before, call.args[1]).id).text} :
           /\ merged = Joined(texts[1], texts[2])
           /\ (\A i \in 1..2 : NoPlaceholderInside(texts[i])) => NoPlaceholderInside(merged)
  /\ (/\ call.op = "merge_multiple_segments"
      /\ call.ret # 0
      /\ Cardinality(Range(call.args[1])) = Len(call.args[1])) =>
       \E texts \in {GivenTexts(call.before, call.args[1])} :
         \E merged \in {SegmentOf(World, call.ret).text} :
           /\ merged = JoinedAll(Head(texts), Tail(texts))
           /\ (\A i \in 1..Len(texts) : NoPlaceholderInside(texts[i]))
                => NoPlaceholderInside(merged)

\* a segment without text has been merged into one with text, which has kept its text
C20_Witness ==
  /\ call.op = "merge_segment_upwards"
  /\ call.ret = TRUE
  /\ SegmentOf(call.before, call.args[1]).text = EMPTY_SEGMENT_PLACEHOLDER
  /\ PreviousOf(call.before, call.args[1]).text # EMPTY_SEGMENT_PLACEHOLDER
  /\ SegmentOf(World, PreviousOf(call.before, call.args[1]).id).text
       = PreviousOf(call.before, call.args[1]).text

\* the segments of the store of w are in the store now with the fields they had
OthersKept(w) ==
  \A id \in StoreIds(w) : id \in StoreIds(World) /\ SegmentOf(World, id) = SegmentOf(w, id)

\* C21: add_segment with the id of a segment of the store as reference puts one new
\* segment, with an id no segment had, at the index of the reference for "above" and
\* at the index after it for "below"; the other segments keep their fields and order
C21_AddBesideReference ==
  (call.op = "add_segment" /\ call.args[2] \in StoreIds(call.before)) =>
    \E before \in {IdsIn(call.before)},
       ref_index \in {get_segment_index(call.before, call.args[2])} :
      /\ call.ret \notin StoreIds(call.before)
      /\ \E at \in {IF call.args[3] = "above" THEN ref_index ELSE ref_index + 1} :
           IdsIn(World)
             = SubSeq(before, 1, at) \o <<call.ret>> \o SubSeq(before, at + 1, Len(before))
      /\ OthersKept(call.before)

\* a segment has been added above the second of two segments
C21_Witness ==
  /\ call.op = "add_segment"
  /\ call.args[3] = "above"
  /\ Len(IdsIn(call.before)) = 2
  /\ call.args[2] = IdsIn(call.before)[2]
  /\ Len(LiveSegs) = 3
  /\ LiveSegs[2].id = call.ret

\* C22: add_segment puts the new segment last in the store when the reference is
\* absent: when reference_segment_id is None and when it is the id of no segment of
\* the store, for "above" and for "below"
C22_AddWithoutReference ==
  (call.op = "add_segment" /\ call.args[2] \notin StoreIds(call.before)) =>
    IdsIn(World) = Append(IdsIn(call.before), call.ret)

\* C23: split_segment on a segment of the store returns True and puts one new segment
\* at the index after the original; the original gets the trimmed text before the
\* offset and the new segment the trimmed text from the offset on, the placeholder
\* where that is empty; the new segment has the properties given, the original keeps
\* its id, speaker and time stamps, the other segments are as they were
C23_SplitResult ==
  (call.op = "split_segment" /\ call.args[1] \in StoreIds(call.before)) =>
    \E original \in {SegmentOf(call.before, call.args[1])},
       index \in {get_segment_index(call.before, call.args[1])},
       before \in {IdsIn(call.before)} :
      /\ call.ret = TRUE
      /\ Len(LiveSegs) = Len(before) + 1
      /\ \E new \in {LiveSegs[index + 2]} :
           /\ new.id \notin StoreIds(call.before)
           /\ IdsIn(World)
                = SubSeq(before, 1, index + 1) \o <<new.id>> \o SubSeq(before, index + 2, Len(before))
           /\ new.text = OrPlaceholder(Strip(Drop(original.text, call.args[2])))
           /\ \A k \in DOMAIN call.args[3] : new[k] = call.args[3][k]
      /\ SegmentOf(World, original.id)
           = [original EXCEPT !.text = OrPlaceholder(Strip(Take(original.text, call.args[2])))]
      /\ \A id \in StoreIds(call.before) \ {original.id} :
           SegmentOf(World, id) = SegmentOf(call.before, id)

\* a text of two words has been split at the space between them, and the new segment
\* has been given a speaker
C23_Witness ==
  /\ call.op = "split_segment"
  /\ call.ret = TRUE
  /\ Len(SegmentOf(call.before, call.args[1]).text) = 3
  /\ SegmentOf(call.before, call.args[1]).text[2] = " "
  /\ call.args[2] = 1
  /\ Len(SegmentOf(World, call.args[1]).text) = 1
  /\ \E i \in 1..Len(LiveSegs) : LiveSegs[i].speaker_raw = <<"B">> /\ Len(LiveSegs[i].text) = 1
                                   /\ LiveSegs[i].id \notin StoreIds(call.before)

\* the methods that change the segment whose id they are given
AddressedMethods ==
  {"update_segment_speaker", "update_segment_timestamps", "remove_segment_timestamp",
   "clear_segment_text", "update_segment_from_full_line", "split_segment", "remove_segment"}

\* C24: a method given an id that is the id of no segment of the store leaves the
\* segments, the speaker map and the speaker labels as they were; split_segment,
\* remove_segment, update_segment_timestamps, remove_segment_timestamp and
\* clear_segment_text then return False, update_segment_speaker and
\* update_segment_from_full_line None; split_segment returns False in that case only,
\* and remove_segment True exactly if the segment was in the store
C24_UnknownIdNoChange ==
  call.op \in AddressedMethods =>
    /\ call.args[1] \notin StoreIds(call.before) =>
         /\ StoreVal(World) = StoreVal(call.before)
         /\ unique_speaker_labels = call.before.unique_speaker_labels
         /\ call.ret = IF call.op \in {"update_segment_speaker", "update_segment_from_full_line"}
                         THEN None ELSE FALSE
    /\ call.op \in {"split_segment", "remove_segment"} =>
         (call.ret = TRUE <=> call.args[1] \in StoreIds(call.before))

\* update_segment_speaker has been given a new speaker for an id that is in no store
C24_Witness ==
  /\ call.op = "update_segment_speaker"
  /\ Len(LiveSegs) >= 1
  /\ call.args[1] \notin StoreIds(call.before)
  /\ call.args[2] = <<"B">>
  /\ <<"B">> \notin unique_speaker_labels

\* the line ends with the text
EndsWith(line, text) ==
  Len(text) <= Len(line) /\ SubSeq(line, Len(line) - Len(text) + 1, Len(line)) = text

\* the line opens with a time stamp that has an end time: " - " stands before the
\* first "]"
EndTimeWritten(line) ==
  /\ line # <<>>
  /\ line[1] = "["
  /\ \E i \in 1..Len(line) :
       /\ i + 2 <= Len(line)
       /\ SubSeq(line, i, i + 2) = <<" ", "-", " ">>
       /\ \A j \in 1..i : line[j] # "]"

\* C25: format_segments_for_saving returns, whatever its two flags, one line per
\* segment in the order of the store; the line of a segment ends with its text, and
\* that of a segment whose text is the placeholder holds its markup only and not the
\* placeholder; where the time stamp of a segment is written, its end time is written
\* only if include_end_times is set and the segment has an explicit end time
C25_SavedLines ==
  call.op = "format_segments_for_saving" =>
    \E segs \in {Segs(call.before)} :
      /\ Len(call.ret) = Len(segs)
      /\ \A i \in 1..Len(segs) :
           /\ IF segs[i].text = EMPTY_SEGMENT_PLACEHOLDER
                THEN /\ ~EndsWith(call.ret[i], EMPTY_SEGMENT_PLACEHOLDER)
                     /\ call.ret[i] = <<>> \/ call.ret[i][Len(call.ret[i])] \in {"]", ":"}
                ELSE EndsWith(call.ret[i], segs[i].text)
           /\ (call.args[1] /\ segs[i].has_timestamps /\ EndTimeWritten(call.ret[i]))
                => (call.args[2] /\ segs[i].has_explicit_end_time)

\* lines have been written without end times for a store that holds a segment with an
\* explicit end time and one without text
C25_Witness ==
  /\ call.op = "format_segments_for_saving"
  /\ call.args = <<TRUE, FALSE>>
  /\ \E i \in 1..Len(LiveSegs) : LiveSegs[i].has_explicit_end_time
  /\ \E i \in 1..Len(LiveSegs) : LiveSegs[i].text = EMPTY_SEGMENT_PLACEHOLDER
  /\ Len(call.ret) = Len(LiveSegs)

\* the overlaps of the transcription segment t_seg with the turns, in their order
Overlaps(t_seg, turns) ==
  [j \in 1..Len(turns) |-> Overlap(t_seg.start, t_seg.end, turns[j])]

\* the speaker of the first of the turns whose overlap with t_seg is the greatest of
\* all, where that is positive, and NO_SPEAKER_LABEL where no turn overlaps t_seg
FirstMaximalSpeaker(t_seg, turns) ==
  Let(Overlaps(t_seg, turns), LAMBDA overlaps :
    IF \A j \in 1..Len(turns) : overlaps[j] = 0 THEN NO_SPEAKER_LABEL
    ELSE turns[CHOOSE j \in 1..Len(turns) :
                 /\ \A k \in 1..Len(turns) : overlaps[k] <= overlaps[j]
                 /\ \A k \in 1..(j - 1) : overlaps[k] < overlaps[j]].speaker)

\* _align_outputs has been given segments to align and a diarization that was performed
\* and whose tracks it could read
AlignedWithTurns ==
  /\ call.op = "_align_outputs"
  /\ call.args.transcription_result_dict # None
  /\ call.args.transcription_result_dict[1] # <<>>
  /\ call.args.diarization_actually_performed
  /\ call.args.diarization_annotation # None
  /\ call.args.diarization_annotation[1].readable

\* C26: alignment gives each transcription segment the speaker of the first turn, in
\* the order of the turns, whose overlap max(0, min(t.end, d.end) - max(t.start,
\* d.start)) with it is the greatest of all turns, where that overlap is positive, and
\* NO_SPEAKER_LABEL where no turn overlaps it: of two turns of equal greatest overlap
\* the earlier one gives the speaker.
C26_FirstMaximalOverlap ==
  AlignedWithTurns =>
    /\ Len(call.ret) = Len(call.args.transcription_result_dict[1])
    /\ \A i \in 1..Len(call.ret) :
         call.ret[i].speaker =
           FirstMaximalSpeaker(call.args.transcription_result_dict[1][i],
                               call.args.diarization_annotation[1].tracks)

\* two turns of different speakers overlap a segment equally, by a second each, and the
\* segment has the speaker of the first; another segment of the same call meets no turn
C26_Witness ==
  /\ AlignedWithTurns
  /\ Len(call.args.diarization_annotation[1].tracks) = 2
  /\ Len(call.ret) = 2
  /\ \E tracks \in {call.args.diarization_annotation[1].tracks},
        t_seg \in {call.args.transcription_result_dict[1][1]} :
       /\ Overlaps(t_seg, tracks) = <<1000, 1000>>
       /\ tracks[1].speaker # tracks[2].speaker
       /\ call.ret[1].speaker = tracks[1].speaker
  /\ call.ret[2].speaker = NO_SPEAKER_LABEL

\* one segment dictionary for each of the transcription segments, in their order, with
\* its start, its end and its text trimmed, and no speaker
Speakerless(transcription_segments) ==
  [i \in 1..Len(transcription_segments) |->
     [start_time |-> transcription_segments[i].start,
      end_time |-> transcription_segments[i].end,
      speaker |-> NO_SPEAKER_LABEL,
      text |-> Strip(transcription_segments[i].text)]]

\* a diarization result that holds no turn alignment can use: none, one without
\* tracks, or one whose tracks cannot be read
NoUsableTurns(diarization_annotation) ==
  \/ diarization_annotation = None
  \/ diarization_annotation[1].tracks = <<>>
  \/ ~diarization_annotation[1].readable

\* process_audio has been given segments by the transcription, neither handler has
\* raised, and the output asked for is not the plain text; the diarization was not
\* attempted, or returned no usable turns
ProcessedWithoutTurns ==
  /\ call.op = "process_audio"
  /\ call.args.transcription_model_loaded
  /\ ~call.args.diarize.raised
  /\ ~call.args.transcribe.raised
  /\ call.args.transcribe.value # None
  /\ call.args.transcribe.value[1] # <<>>
  /\ call.args.self.output_include_timestamps \/ call.args.self.output_enable_diarization
  /\ \/ ~DiarizationWillBeAttempted(call.args.self)
     \/ NoUsableTurns(call.args.diarize.value)

\* _align_outputs has been given segments, and a diarization that was not performed
\* or holds no usable turns
AlignedWithoutTurns ==
  /\ call.op = "_align_outputs"
  /\ call.args.transcription_result_dict # None
  /\ call.args.transcription_result_dict[1] # <<>>
  /\ \/ ~call.args.diarization_actually_performed
     \/ NoUsableTurns(call.args.diarization_annotation)

MergedAgain == call.op = "_perform_auto_merge" /\ call.n = 2

\* C28: auto-merge is idempotent.  _perform_auto_merge, given what it returned for a
\* list of segment dictionaries, returns that list as it is: as many segments, with the
\* same speakers, texts, start and end times.
C28_AutoMergeIdempotent ==
  MergedAgain => call.ret = call.args.segment_dicts

\* auto-merge is enabled, and the list given the second time is one the first call made
\* of three segments, two of them merged
C28_Witness ==
  /\ MergedAgain
  /\ call.args.output_enable_auto_merge
  /\ Len(call.args.segment_dicts) = 2
  /\ call.args.segment_dicts[1].text = <<"a", " ", "b">>
  /\ call.args.segment_dicts[1].end_time = 4000
  /\ call.args.segment_dicts[2].speaker = NO_SPEAKER_LABEL
  /\ call.ret = call.args.segment_dicts

\* auto-merge, enabled, has been given two segment dictionaries of one speaker that
\* is not NO_SPEAKER_LABEL, whose texts are not both empty
MergedTwo ==
  /\ call.op = "_perform_auto_merge"
  /\ call.n = 1
  /\ call.args.output_enable_auto_merge
  /\ Len(call.args.segment_dicts) = 2
  /\ CanMerge(call.args.segment_dicts[1], call.args.segment_dicts[2])
  /\ <<call.args.segment_dicts[1].text, call.args.segment_dicts[2].text>> # << <<>>, <<>> >>

\* C29: auto-merge joins texts as merge_segment_upwards does.  For two adjacent
\* segments of one speaker that is not NO_SPEAKER_LABEL the text of the merged segment
\* is what the join of merge_segment_upwards gives for the two texts: the side that is
\* not empty alone where the other is empty, and the two sides with one space between
\* them where neither is.
C29_AutoMergeJoinsAsMergeUpwards ==
  MergedTwo =>
    /\ Len(call.ret) = 1
    /\ call.ret[1].text = MergedText(call.args.segment_dicts[1].text,
                                     call.args.segment_dicts[2].text)

\* the command on top of the undo stack
LastCommand == undo_stack[Len(undo_stack)]

\* what the commands of a stack held when they were recorded
Recorded(stack) == [i \in 1..Len(stack) |-> stack[i].recorded]

\* the steps of the handlers that edit the transcript
HandlerOps == {"handler", "save_timestamp"}

\* the step of a handler has pushed one command, which holds the store the handler
\* found as its before snapshots and the store it has left as its after snapshots
PushedOne ==
  /\ cmds' = cmds + 1
  /\ Len(undo_stack') = Len(undo_stack) + 1
  /\ SubSeq(Recorded(undo_stack'), 1, Len(undo_stack)) = Recorded(undo_stack)
  /\ LastCommand'.recorded =
       [before_segments |-> Segs(World), before_map |-> SpeakerMap(World),
        after_segments |-> Segs(World)', after_map |-> SpeakerMap(World)']

RECURSIVE Reverse(_)
\* a sequence, last element first
Reverse(s) == IF s = <<>> THEN <<>> ELSE Append(Reverse(Tail(s)), Head(s))

\* the commands of the history in the order they were recorded in: those that can be
\* undone, oldest first, and then those that can be redone, the one undone last first
History == Recorded(undo_stack) \o Reverse(Recorded(redo_stack))

\* the top command of the undo stack has moved to the top of the redo stack
MovedToRedo ==
  /\ Recorded(undo_stack') = SubSeq(Recorded(undo_stack), 1, Len(undo_stack) - 1)
  /\ Recorded(redo_stack') = Append(Recorded(redo_stack), LastCommand.recorded)

\* the top command of the redo stack has moved to the top of the undo stack
MovedToUndo ==
  /\ Recorded(redo_stack') = SubSeq(Recorded(redo_stack), 1, Len(redo_stack) - 1)
  /\ Recorded(undo_stack') = Append(Recorded(undo_stack), redo_stack[Len(redo_stack)].recorded)

\* C31: undo and redo move commands last in, first out, and neither lose nor duplicate
\* one.  undo() moves the top command of the undo stack to the top of the redo stack,
\* redo() moves the top command of the redo stack to the top of the undo stack, and the
\* undo stack followed by the reversed redo stack is the same sequence of commands
\* after an undo or a redo as before it.
C31_LastInFirstOut ==
  [][/\ last_op' = "undo" /\ undo_stack # <<>> => MovedToRedo
     /\ last_op' = "redo" /\ redo_stack # <<>> => MovedToUndo
     /\ last_op' \in {"undo", "redo"} => History' = History]_vars

\* two commands have been undone one after the other: the one recorded last, whose
\* before snapshot is the after snapshot of the other, lies under the other on the
\* redo stack
C31_Witness ==
  /\ last_op = "undo"
  /\ undo_stack = <<>>
  /\ Len(redo_stack) = 2
  /\ redo_stack[1].recorded # redo_stack[2].recorded
  /\ redo_stack[1].recorded.before_segments = redo_stack[2].recorded.after_segments

\* the places of segs at which a run starts: the first, and each whose speaker is not
\* that of the segment before it or is NO_SPEAKER_LABEL
RunStarts(segs) ==
  {i \in 1..Len(segs) :
     \/ i = 1
     \/ segs[i].speaker # segs[i - 1].speaker
     \/ segs[i].speaker = NO_SPEAKER_LABEL}

\* the last place of the run that starts at i
RunEnd(segs, i) ==
  CHOOSE j \in i..Len(segs) :
    /\ \A k \in (i + 1)..j : k \notin RunStarts(segs)
    /\ j = Len(segs) \/ (j + 1) \in RunStarts(segs)

RECURSIVE SpaceJoined(_, _, _)
\* the texts of segs from place i to place j, in that order, one space between two
SpaceJoined(segs, i, j) ==
  IF i = j THEN segs[i].text
  ELSE SpaceJoined(segs, i, j - 1) \o <<" ">> \o segs[j].text

\* the run of segs from place i to place j as one segment
RunMerged(segs, i, j) ==
  [start_time |-> segs[i].start_time, end_time |-> segs[j].end_time,
   speaker |-> segs[i].speaker, text |-> SpaceJoined(segs, i, j)]

\* the k-th of the places in starts, counted from the lowest
KthStart(starts, k) == CHOOSE i \in starts : Cardinality({h \in starts : h <= i}) = k

\* auto-merge, enabled, has been given segment dictionaries
AutoMerged ==
  /\ call.op = "_perform_auto_merge"
  /\ call.n = 1
  /\ call.args.output_enable_auto_merge

\* C32: auto-merge absorbs a segment exactly if its speaker is that of the accumulator
\* and is not NO_SPEAKER_LABEL.  Each segment put out is one maximal run of consecutive
\* segments of one such speaker, merged: the start time of the first, the end time of
\* the last, the texts in their order; a segment with NO_SPEAKER_LABEL is a run of its
\* own, so it comes out as it went in, and no two adjacent segments put out share a
\* speaker other than NO_SPEAKER_LABEL.
C32_AutoMergeRuns ==
  AutoMerged =>
    \E segs \in {call.args.segment_dicts} :
      /\ Len(call.ret) = Cardinality(RunStarts(segs))
      /\ \A k \in 1..Len(call.ret) :
           \E i \in {KthStart(RunStarts(segs), k)} :
             /\ call.ret[k] = RunMerged(segs, i, RunEnd(segs, i))
             /\ segs[i].speaker = NO_SPEAKER_LABEL => call.ret[k] = segs[i]
      /\ \A k \in 1..(Len(call.ret) - 1) :
           \/ call.ret[k].speaker # call.ret[k + 1].speaker
           \/ call.ret[k].speaker = NO_SPEAKER_LABEL

\* three segments of one speaker have been merged into one, from the start of the first
\* to the end of the last
C32_Witness ==
  /\ AutoMerged
  /\ Len(call.args.segment_dicts) = 3
  /\ call.args.segment_dicts[1].end_time = 2000
  /\ call.args.segment_dicts[3].end_time = 4000
  /\ Len(call.ret) = 1
  /\ call.ret[1].speaker = <<"A">>
  /\ call.ret[1].end_time = 4000
  /\ call.ret[1].text = <<"a", " ", "b", " ", "a">>

\* update_segment_timestamps has been called with the id of a segment of the store
TimestampsUpdated ==
  /\ call.op = "update_segment_timestamps"
  /\ call.args[1] \in StoreIds(call.before)

\* C33: after update_segment_timestamps on a segment of the store, has_timestamps is
\* true exactly if the start string parsed, has_explicit_end_time exactly if the start
\* string and the end string both parsed, and start_time is the parsed start, or 0.0
\* where the start string did not parse; the text, the speaker and the id of the
\* segment, the other segments, the order and the speaker map are as before.
C33_TimestampsUpdated ==
  TimestampsUpdated =>
    \E old \in {SegmentOf(call.before, call.args[1])},
       new \in {SegmentOf(World, call.args[1])},
       parsed_start \in {time_str_to_seconds(call.args[2])},
       parsed_end \in {time_str_to_seconds(call.args[3])} :
      /\ new.has_timestamps = (parsed_start # None)
      /\ new.has_explicit_end_time = (parsed_start # None /\ parsed_end # None)
      /\ new.start_time = IF parsed_start # None THEN parsed_start[1] ELSE 0
      /\ new.text = old.text
      /\ new.speaker_raw = old.speaker_raw
      /\ new.id = old.id
      /\ IdsIn(World) = IdsIn(call.before)
      /\ \A id \in StoreIds(call.before) \ {call.args[1]} :
           SegmentOf(World, id) = SegmentOf(call.before, id)
      /\ SpeakerMap(World) = SpeakerMap(call.before)

\* a segment with time stamps, one of two in the store, has been given a start string
\* without milliseconds, which does not parse, and an end string that does: it has
\* lost its time stamps and starts at 0
C33_Witness ==
  /\ TimestampsUpdated
  /\ Len(LiveSegs) = 2
  /\ call.args[2] = <<"0","0",":","0","2">>
  /\ time_str_to_seconds(call.args[3]) = Some(3000)
  /\ SegmentOf(call.before, call.args[1]).has_timestamps
  /\ SegmentOf(call.before, call.args[1]).start_time = 2500
  /\ ~SegmentOf(World, call.args[1]).has_timestamps
  /\ ~SegmentOf(World, call.args[1]).has_explicit_end_time
  /\ SegmentOf(World, call.args[1]).start_time = 0

\* the lines of text_lines that are not blank once stripped, stripped, in order
NonBlank(text_lines) ==
  Let(SelectSeq(text_lines, LAMBDA line : Strip(line) # <<>>), LAMBDA kept :
    [i \in 1..Len(kept) |-> Strip(kept[i])])

\* parse_transcription_lines has been called
LinesParsed == call.op = "parse_transcription_lines"

\* C34: after parse_transcription_lines(lines) the store holds one segment for each
\* line that is not blank, in the order of the lines, each with an id that no segment
\* had before and no other parsed segment has, and a text that is not empty (the
\* placeholder, or an end of its line); the speaker map is empty; the labels are the
\* speakers of the parsed segments other than NO_SPEAKER_LABEL; the call returns True.
C34_ParseReplacesAll ==
  LinesParsed =>
    \E lines \in {NonBlank(call.args[1])} :
      /\ call.ret = TRUE
      /\ Len(LiveSegs) = Len(lines)
      /\ \A i \in 1..Len(LiveSegs) :
           /\ LiveSegs[i].text # <<>>
           /\ \/ LiveSegs[i].text = EMPTY_SEGMENT_PLACEHOLDER
              \/ EndsWith(lines[i], LiveSegs[i].text)
           /\ LiveSegs[i].id \notin StoreIds(call.before)
           /\ LiveSegs[i].id >= call.before.next_id
           /\ \A j \in 1..Len(LiveSegs) : LiveSegs[j].id = LiveSegs[i].id => j = i
      /\ DOMAIN maps[speaker_map] = {}
      /\ unique_speaker_labels =
           {LiveSegs[i].speaker_raw : i \in 1..Len(LiveSegs)} \ {NO_SPEAKER_LABEL}

\* a file of four lines, one blank and one without text after its speaker, has been
\* parsed into a store that held one segment and a name for its speaker B: the store
\* holds the three segments of the file, the name is gone, and the labels are the
\* speakers A and B of the file
C34_Witness ==
  /\ LinesParsed
  /\ call.args[1] = <<StoreLine3, Line2, <<>>, StoreLine4>>
  /\ DOMAIN SpeakerMap(call.before) = {<<"B">>}
  /\ call.before.unique_speaker_labels = {<<"B">>}
  /\ Len(call.before.lists[call.before.segments]) = 1
  /\ Len(LiveSegs) = 3
  /\ LiveSegs[1].text = EMPTY_SEGMENT_PLACEHOLDER
  /\ LiveSegs[3].speaker_raw = NO_SPEAKER_LABEL
  /\ unique_speaker_labels = {<<"A">>, <<"B">>}

\* C35: the undo and redo stacks are emptied, without altering the transcript, when a
\* transcript is loaded and after an explicit save; a save that the user cancels or
\* that fails to write, and a load that fails before parsing, leave both stacks as
\* they were.
C35_StacksClearedOnLoadAndSave ==
  [][/\ last_op' \in {"load", "save"} => undo_stack' = <<>> /\ redo_stack' = <<>>
     /\ last_op' = "save" => StoreVal(World)' = StoreVal(World)
     /\ last_op' \in {"save_cancelled", "save_failed", "load_failed"} =>
          /\ Recorded(undo_stack') = Recorded(undo_stack)
          /\ Recorded(redo_stack') = Recorded(redo_stack)]_vars

\* C36: no mutation escapes the history.  Whatever editing actions were completed,
\* cancelled in their dialog or abandoned by leaving the edit mode, once undo() has
\* emptied the undo stack (or while nothing is recorded in it) the segments and the
\* speaker map are those the store held when the history was last cleared, by a load or
\* a save.
C36_NoMutationEscapes == undo_stack = <<>> => StoreVal(World) = base

\* C37: in every reachable state the availability the undo manager last announced,
\* which is the enabled state of the Undo and Redo buttons, matches the stacks: undo is
\* available exactly if the undo stack is not empty and redo exactly if the redo stack
\* is not empty.
C37_ButtonsMatchStacks ==
  /\ undo_enabled <=> undo_stack # <<>>
  /\ redo_enabled <=> redo_stack # <<>>

\* undo() has been called on an empty undo stack while there was a command to redo:
\* nothing was announced, redo is available and undo is not
C37_Witness ==
  /\ last_op = "undo"
  /\ signals = <<>>
  /\ undo_stack = <<>>
  /\ redo_stack # <<>>
  /\ redo_enabled
  /\ ~undo_enabled

\* the ids of the segments the last call took out of the store
Removed == StoreIds(call.before) \ StoreIds(World)

\* C38: for any list of ids given to merge_multiple_segments, in any order, with
\* repeated ids or ids of no segment, the call returns None or the id of a segment that
\* is in the store after the call; the id returned is not among the segments the call
\* removes, and only segments named in the list are removed.
C38_SurvivorInStore ==
  call.op = "merge_multiple_segments" =>
    /\ call.ret = 0 \/ call.ret \in StoreIds(World)
    /\ call.ret \notin Removed
    /\ Removed \subseteq {call.args[1][i] : i \in 1..Len(call.args[1])}

\* C39: saving a start time from the time stamp edit mode re-times only the start.
\* The segment edited, which the handler leaves selected, starts at the position of the
\* start bar and keeps has_timestamps true; its end_time, has_explicit_end_time, text
\* and speaker_raw, and every other segment, are as they were before the handler.
C39_OnlyStartRetimed ==
  last_op = "save_timestamp" =>
    /\ law.phase = "recorded"
    /\ Len(law.S1.segments) = Len(law.S.segments)
    /\ \A i \in 1..Len(law.S.segments) :
         \E old \in {law.S.segments[i]}, new \in {law.S1.segments[i]} :
           IF old.id = selected_segment_id
             THEN /\ new.start_time \in BarPositions
                  /\ new.has_timestamps
                  /\ new.end_time = old.end_time
                  /\ new.has_explicit_end_time = old.has_explicit_end_time
                  /\ new.text = old.text
                  /\ new.speaker_raw = old.speaker_raw
                  /\ new.id = old.id
             ELSE new = old

====
